---- MODULE Spec2Model ----
(***************************************************************************)
(* A state-machine model of Ui::Menu (src/ui/widgets/menu.cpp): the action *)
(* list, the derived widget size, the hover / press selection and the      *)
(* callbacks the widget invokes, together with the pure helper             *)
(* ParseMenuItem; of KotatoSettings (core/kotato_settings.cpp): the        *)
(* Manager, its write timer and the two settings files; and of the         *)
(* registry of window helpers of WindowHelper::NativeFilter                *)
(* (ui/platform/win/ui_window_win.cpp).                                    *)
(*                                                                         *)
(* Conventions.                                                            *)
(*  - Indices are 0-based as in the C++ code; actions[i + 1] is the        *)
(*    element _actions[i].                                                 *)
(*  - Positions are given in the widget's local coordinates, i.e. after    *)
(*    mapFromGlobal.  QCursor::pos() is an input of the operation that     *)
(*    reads it: the pointer moves freely between two events.               *)
(*  - A QString is a sequence of one-character strings.                    *)
(*  - Of a RippleAnimation the state keeps whether the object exists, of   *)
(*    a ToggleView whether it exists and which style it was given last     *)
(*    ("none", "resting" for _st.itemToggle, "hover" for                   *)
(*    _st.itemToggleOver).  Whether a ripple has finished when it is       *)
(*    painted is an input of the paint event.  The per-action rendering    *)
(*    caches that no operation reads back (icons, textWidth) are not part  *)
(*    of the state.                                                        *)
(*  - The callbacks (_activatedCallback, _triggeredCallback, the resized   *)
(*    callback and the mouse delegates) are installed.  A handler is an    *)
(*    operator from the selection state and its input to the selection     *)
(*    state it leaves, with the callbacks it invoked, in order, in the     *)
(*    field calls; the action of that handler commits its result.          *)
(***************************************************************************)
EXTENDS Integers, Sequences, FiniteSets, TLC

VARIABLES
    actions,         \* _actions: the QAction properties the menu reads
    actionsData,     \* _actionsData: text, shortcut, hasSubmenu, ripple, toggle
    width,           \* width() of the widget
    height,          \* height() of the widget
    forceWidth,      \* _forceWidth
    selected,        \* _selected
    pressed,         \* _pressed
    mouseSelection,  \* _mouseSelection
    childShown,      \* _childShown
    sinceClear,      \* only appends happened since construction / clearActions
    parseIn,         \* argument of ParseMenuItem
    parseDone,       \* ParseMenuItem has returned
    parseOut,        \* its result
    Data,            \* KotatoSettings: the Manager exists
    jsonWriteTimer,  \* Manager::_jsonWriteTimer: active, time left
    sinceWrite,      \* time since the latest KotatoSettings::Write() request
    unwritten,       \* a Write() request was made after Start() that no
                     \* writeCurrentSettings() to the custom file has followed
    fontSettings,    \* cMainFont, cSemiboldFont, cSemiboldFontIsBold, cMonospaceFont
    customFile,      \* tdata/kotato-settings-custom.json
    defaultFile,     \* tdata/kotato-settings-default.json
    helperHandle,    \* WindowHelper::_handle of every live helper, by address
    helperEvents,    \* handleNativeEvent has run at the address since the
                     \* latest construction or destruction there
    windowByHandle   \* NativeFilter::_windowByHandle

vars == <<actions, actionsData, width, height, forceWidth, selected, pressed,
          mouseSelection, childShown, sinceClear, parseIn, parseDone, parseOut,
          Data, jsonWriteTimer, sinceWrite, unwritten, fontSettings, customFile,
          defaultFile,
          helperHandle, helperEvents, windowByHandle>>

menuVars == <<actions, actionsData, width, height, forceWidth, selected, pressed,
              mouseSelection, childShown, sinceClear>>

parseVars == <<parseIn, parseDone, parseOut>>

settingsVars ==
    <<Data, jsonWriteTimer, sinceWrite, unwritten, fontSettings, customFile,
      defaultFile>>

windowVars == <<helperHandle, helperEvents, windowByHandle>>

\* What an operation of the menu leaves alone.
besideMenu == <<parseVars, settingsVars, windowVars>>

(***************************************************************************)
(* Bounds of the model.                                                    *)
(***************************************************************************)
MaxActions == 3
MaxLayoutActions == 2
MaxVisualActions == 2
MaxLen == 4
MaxHelpers == 3
MaxHandles == 2

(***************************************************************************)
(* Style constants (style::Menu _st) and the two heights derived from them *)
(* in the constructor.                                                     *)
(***************************************************************************)
Skip == 1
ItemHeight == 2
SeparatorHeight == 1
WidthMin == 4
WidthMax == 7
PaddingLeft == 1
PaddingRight == 1
ArrowWidth == 1
ToggleWidth == 2
ToggleShift == 0
CharWidth == 1

Tab == "\t"
Amp == "&"

(***************************************************************************)
(* ParseMenuItem                                                           *)
(***************************************************************************)
EmptyText == [text |-> <<>>, entities |-> <<>>]

Underline(offset) == [type |-> "Underline", offset |-> offset, length |-> 1]

\* ParseChar recording the entity's offset after appending the character.
ParseCharOffsetAfterAppend(st, ch) ==
    IF st.afterAmpersand
    THEN IF ch = Amp
         THEN [result |-> [st.result EXCEPT !.text = Append(@, ch)],
               afterAmpersand |-> FALSE]
         ELSE [result |-> [text |-> Append(st.result.text, ch),
                           entities |-> Append(st.result.entities,
                                               Underline(Len(st.result.text) + 1))],
               afterAmpersand |-> FALSE]
    ELSE IF ch = Amp
         THEN [st EXCEPT !.afterAmpersand = TRUE]
         ELSE [st EXCEPT !.result.text = Append(@, ch)]

\* One iteration of the loop over the characters: st = [result, afterAmpersand].
ParseChar(st, ch) ==
    IF st.afterAmpersand
    THEN IF ch = Amp
         THEN [result |-> [st.result EXCEPT !.text = Append(@, ch)],
               afterAmpersand |-> FALSE]
         ELSE [result |-> [text |-> Append(st.result.text, ch),
                           entities |-> Append(st.result.entities,
                                               Underline(Len(st.result.text)))],
               afterAmpersand |-> FALSE]
    ELSE IF ch = Amp
         THEN [st EXCEPT !.afterAmpersand = TRUE]
         ELSE [st EXCEPT !.result.text = Append(@, ch)]

RECURSIVE ParseLoop(_, _)
ParseLoop(st, text) ==
    IF text = <<>> THEN st ELSE ParseLoop(ParseChar(st, Head(text)), Tail(text))

ParseMenuItem(text) ==
    ParseLoop([result |-> EmptyText, afterAmpersand |-> FALSE], text).result

(***************************************************************************)
(* QString::split('\t') with the default KeepEmptyParts behaviour.         *)
(***************************************************************************)
RECURSIVE SplitAcc(_, _, _)
SplitAcc(text, cur, parts) ==
    IF text = <<>> THEN Append(parts, cur)
    ELSE IF Head(text) = Tab
         THEN SplitAcc(Tail(text), <<>>, Append(parts, cur))
         ELSE SplitAcc(Tail(text), Append(cur, Head(text)), parts)

Split(text) == SplitAcc(text, <<>>, <<>>)

(***************************************************************************)
(* Comparisons of an int with _actions.size(): the int is converted to     *)
(* size_t, so a negative value compares greater than every size.           *)
(***************************************************************************)
UGe(i, n) == i < 0 \/ i >= n
UGt(i, n) == i < 0 \/ i > n
ULt(i, n) == i >= 0 /\ i < n

\* ActionHeight giving a separator the height of an item.
ActionHeightUniform(action) == ItemHeight

ActionHeight(action) == IF action.sep THEN SeparatorHeight ELSE ItemHeight

RECURSIVE SumHeights(_, _)
SumHeights(acts, count) ==
    IF count <= 0 THEN 0
    ELSE SumHeights(acts, count - 1) + ActionHeight(acts[count])

ItemTop(acts, index) ==
    LET idx == IF UGt(index, Len(acts)) THEN Len(acts) ELSE index
    IN  Skip + SumHeights(acts, idx)

(***************************************************************************)
(* processAction: the cached text and shortcut, and the width it returns.  *)
(***************************************************************************)
Max(a, b) == IF a >= b THEN a ELSE b

\* std::clamp(v, lo, hi) as the standard library computes it.  It is only
\* defined for lo <= hi; the one call with lo > hi (addAction under a forced
\* width above widthMax) has its result discarded by addAction, and the
\* operations below never evaluate it there.
Clamp(v, lo, hi) == IF v < lo THEN lo ELSE IF hi < v THEN hi ELSE v

IsTextless(action) == action.sep \/ action.text = <<>>

ActionText(action) == Split(action.text)[1]

\* ActionShortcut taking the last part of the text.
ActionShortcutLastPart(action) ==
    LET actionTextParts == Split(action.text)
    IN  IF Len(actionTextParts) > 1 THEN actionTextParts[Len(actionTextParts)] ELSE <<>>

ActionShortcut(action) ==
    LET actionTextParts == Split(action.text)
    IN  IF Len(actionTextParts) > 1 THEN actionTextParts[2] ELSE <<>>

\* Text::String::maxWidth() and style::font->width(): every character is
\* CharWidth wide.
TextWidth(text) == Len(text) * CharWidth

GoodWidth(action, data) ==
    LET textw == TextWidth(ParseMenuItem(ActionText(action)).text)
        base == PaddingLeft + textw + PaddingRight
        trailing ==
            IF data.hasSubmenu THEN PaddingRight + ArrowWidth
            ELSE IF ActionShortcut(action) # <<>>
                 THEN PaddingRight + TextWidth(ActionShortcut(action))
                 ELSE 0
        toggle ==
            IF action.checkable THEN PaddingRight + ToggleWidth - ToggleShift ELSE 0
    IN  base + trailing + toggle

\* The toggle view processAction leaves: a checkable action keeps the one it
\* has or gets a new one in the resting style, another action has none.
ProcessActionToggle(action, data) ==
    IF action.checkable
    THEN (IF data.toggle # "none" THEN data.toggle ELSE "resting")
    ELSE "none"

ProcessActionData(action, data) ==
    IF IsTextless(action)
    THEN [data EXCEPT !.shortcut = <<>>, !.text = EmptyText]
    ELSE [data EXCEPT !.text = ParseMenuItem(ActionText(action)),
                      !.shortcut = ActionShortcut(action),
                      !.toggle = ProcessActionToggle(action, data)]

\* ProcessActionWidth without the upper bound.
ProcessActionWidthUnbounded(action, data, w) ==
    IF IsTextless(action) THEN w
    ELSE IF GoodWidth(action, data) < w THEN w ELSE GoodWidth(action, data)

ProcessActionWidth(action, data, w) ==
    IF IsTextless(action) THEN w ELSE Clamp(GoodWidth(action, data), w, WidthMax)

(***************************************************************************)
(* Selection state threaded through a handler:                             *)
(*   m = [selected, pressed, mouseSelection, data, calls],                 *)
(* data being _actionsData.                                                *)
(***************************************************************************)
Cur ==
    [selected |-> selected, pressed |-> pressed,
     mouseSelection |-> mouseSelection, data |-> actionsData, calls |-> <<>>]

\* data.toggle->setStyle(style) on the action at index, where one exists.
SetStyle(data, index, style) == [data EXCEPT ![index + 1].toggle = style]

\* The toggle part of setSelected / setPressed: index from moves to index to
\* while the other of _selected and _pressed is at other.
MoveToggleStyleKeepsHover(data, acts, from, to, other) ==
    IF to >= 0 /\ data[to + 1].toggle # "none" /\ acts[to + 1].enabled
    THEN SetStyle(data, to, "hover")
    ELSE data

MoveToggleStyle(data, acts, from, to, other) ==
    LET left == IF from >= 0 /\ from # other /\ data[from + 1].toggle # "none"
                THEN SetStyle(data, from, "resting")
                ELSE data
    IN  IF to >= 0 /\ left[to + 1].toggle # "none" /\ acts[to + 1].enabled
        THEN SetStyle(left, to, "hover")
        ELSE left

\* One callback invocation: which callback, the action passed (its index, -1
\* for none), the offset passed, the source passed, and _pressed and the
\* number of actions at that moment.
Call(cb, index, top, source, m, acts) ==
    [cb |-> cb, index |-> index, top |-> top, source |-> source,
     pressed |-> m.pressed, count |-> Len(acts)]

\* One invocation of a mouse delegate: the position passed to it.
Delegated(cb, pos, m, acts) ==
    [cb |-> cb, pos |-> pos, pressed |-> m.pressed, count |-> Len(acts)]

\* SetSelected without the normalisation of the index.
SetSelectedUnchecked(m, acts, sel) ==
    IF m.selected # sel
    THEN LET m1 == [m EXCEPT !.selected = sel,
                             !.data = MoveToggleStyle(@, acts, m.selected,
                                          IF sel < Len(acts) THEN sel ELSE -1,
                                          m.pressed)]
             source == IF m1.mouseSelection THEN "Mouse" ELSE "Keyboard"
         IN  [m1 EXCEPT !.calls =
                 Append(@, Call("activated", sel, ItemTop(acts, sel), source, m1, acts))]
    ELSE m

SetSelected(m, acts, sel) ==
    LET s == IF UGe(sel, Len(acts)) THEN -1 ELSE sel
    IN  IF m.selected # s
        THEN LET m1 == [m EXCEPT !.selected = s,
                                 !.data = MoveToggleStyle(@, acts, m.selected, s,
                                                          m.pressed)]
                 source == IF m1.mouseSelection THEN "Mouse" ELSE "Keyboard"
             IN  [m1 EXCEPT !.calls =
                     Append(@, Call("activated", s, ItemTop(acts, s), source, m1, acts))]
        ELSE m

SetPressed(m, acts, p) ==
    LET q == IF UGe(p, Len(acts)) THEN -1 ELSE p
    IN  IF m.pressed # q
        THEN [m EXCEPT !.pressed = q,
                       !.data = MoveToggleStyle(@, acts, m.pressed, q, m.selected)]
        ELSE m

\* ScanPoint with top < y for top <= y.
RECURSIVE ScanPointStrict(_, _, _, _)
ScanPointStrict(acts, y, sel, top) ==
    IF top < y
    THEN LET next == sel + 1
         IN  IF ULt(next, Len(acts))
             THEN ScanPointStrict(acts, y, next, top + ActionHeight(acts[next + 1]))
             ELSE next
    ELSE sel

\* The while loop of updateSelected: the index it stops at.
RECURSIVE ScanPoint(_, _, _, _)
ScanPoint(acts, y, sel, top) ==
    IF top <= y
    THEN LET next == sel + 1
         IN  IF ULt(next, Len(acts))
             THEN ScanPoint(acts, y, next, top + ActionHeight(acts[next + 1]))
             ELSE next
    ELSE sel

\* UpdateSelected without the test of the selection mode.
UpdateSelectedInEveryMode(m, acts, pos) ==
    LET y == pos.y - Skip
        sel == ScanPoint(acts, y, -1, 0)
    IN  SetSelected(m, acts,
            IF sel >= 0 /\ ULt(sel, Len(acts))
               /\ acts[sel + 1].enabled /\ ~acts[sel + 1].sep
            THEN sel ELSE -1)

UpdateSelected(m, acts, pos) ==
    IF ~m.mouseSelection THEN m
    ELSE LET y == pos.y - Skip
             sel == ScanPoint(acts, y, -1, 0)
         IN  SetSelected(m, acts,
                 IF sel >= 0 /\ ULt(sel, Len(acts))
                    /\ acts[sel + 1].enabled /\ ~acts[sel + 1].sep
                 THEN sel ELSE -1)

\* ItemReleased comparing _pressed with _selected after resetting it.
ItemReleasedComparesAfterReset(m, acts, source) ==
    IF m.pressed >= 0 /\ ULt(m.pressed, Len(acts))
    THEN LET m1 == SetPressed(m, acts, -1)
         IN  IF m1.pressed = m1.selected
             THEN [m1 EXCEPT !.calls =
                     Append(@, Call("triggered", m1.selected,
                                    ItemTop(acts, m1.selected), source, m1, acts))]
             ELSE m1
    ELSE m

\* ItemReleased triggering the pressed action wherever the selection is.
ItemReleasedUnconditional(m, acts, source) ==
    IF m.pressed >= 0 /\ ULt(m.pressed, Len(acts))
    THEN LET was == m.pressed
             m1 == SetPressed(m, acts, -1)
         IN  [m1 EXCEPT !.calls =
                 Append(@, Call("triggered", was, ItemTop(acts, was), source, m1, acts))]
    ELSE m

\* ItemReleased resetting _pressed after the callback.
ItemReleasedResetsLate(m, acts, source) ==
    IF m.pressed >= 0 /\ ULt(m.pressed, Len(acts))
    THEN LET m1 == IF m.pressed = m.selected
                   THEN [m EXCEPT !.calls =
                            Append(@, Call("triggered", m.selected,
                                           ItemTop(acts, m.selected), source, m, acts))]
                   ELSE m
         IN  SetPressed(m1, acts, -1)
    ELSE m

ItemReleased(m, acts, source) ==
    IF m.pressed >= 0 /\ ULt(m.pressed, Len(acts))
    THEN LET was == m.pressed
             m1 == SetPressed(m, acts, -1)
         IN  IF was = m1.selected
             THEN [m1 EXCEPT !.calls =
                     Append(@, Call("triggered", m1.selected,
                                    ItemTop(acts, m1.selected), source, m1, acts))]
             ELSE m1
    ELSE m

\* ItemPressed leaving the release of a keyboard press to a later event.
\* The ripple part of itemPressed(Mouse): the RippleAnimation of the pressed
\* action is created unless it exists, and the press is added to it.
AddRipple(m) == [m EXCEPT !.data[m.pressed + 1].ripple = TRUE]

ItemPressedWithoutRelease(m, acts, source) ==
    IF source = "Mouse" /\ ~m.mouseSelection THEN m
    ELSE IF m.selected >= 0 /\ ULt(m.selected, Len(acts))
            /\ acts[m.selected + 1].enabled
         THEN LET m1 == SetPressed(m, acts, m.selected)
              IN  IF source = "Mouse" THEN AddRipple(m1) ELSE m1
         ELSE m

\* ItemPressed without the test of the selection mode.
ItemPressedInEveryMode(m, acts, source) ==
    IF m.selected >= 0 /\ ULt(m.selected, Len(acts))
       /\ acts[m.selected + 1].enabled
    THEN LET m1 == SetPressed(m, acts, m.selected)
         IN  IF source = "Mouse" THEN AddRipple(m1)
             ELSE ItemReleased(m1, acts, source)
    ELSE m

\* ItemPressed with a ripple for keyboard presses too.
ItemPressedAlwaysRipples(m, acts, source) ==
    IF source = "Mouse" /\ ~m.mouseSelection THEN m
    ELSE IF m.selected >= 0 /\ ULt(m.selected, Len(acts))
            /\ acts[m.selected + 1].enabled
         THEN LET m1 == AddRipple(SetPressed(m, acts, m.selected))
              IN  IF source = "Mouse" THEN m1 ELSE ItemReleased(m1, acts, source)
         ELSE m

ItemPressed(m, acts, source) ==
    IF source = "Mouse" /\ ~m.mouseSelection THEN m
    ELSE IF m.selected >= 0 /\ ULt(m.selected, Len(acts))
            /\ acts[m.selected + 1].enabled
         THEN LET m1 == SetPressed(m, acts, m.selected)
              IN  IF source = "Mouse" THEN AddRipple(m1)
                  ELSE ItemReleased(m1, acts, source)
         ELSE m

ClearSelectionIn(m, acts) ==
    SetSelected([m EXCEPT !.mouseSelection = FALSE], acts, -1)

\* ClearMouseSelection clearing also while a child submenu is shown.
ClearMouseSelectionUnderChild(m, acts) ==
    IF m.mouseSelection THEN ClearSelectionIn(m, acts) ELSE m

ClearMouseSelection(m, acts) ==
    IF m.mouseSelection /\ ~childShown THEN ClearSelectionIn(m, acts) ELSE m

\* rect().contains(p) and rect().marginsRemoved(0, skip, 0, skip).contains(p);
\* an empty rectangle contains no point.
RectContains(pos) ==
    0 <= pos.x /\ pos.x < width /\ 0 <= pos.y /\ pos.y < height

InnerContains(pos) ==
    0 <= pos.x /\ pos.x < width /\ Skip <= pos.y /\ pos.y < height - Skip

HandleMouseMove(m, acts, pos) ==
    IF InnerContains(pos)
    THEN UpdateSelected([m EXCEPT !.mouseSelection = TRUE], acts, pos)
    ELSE LET m1 == ClearMouseSelection(m, acts)
         IN  [m1 EXCEPT !.calls =
                 Append(@, Delegated("mouseMoveDelegate", pos, m1, acts))]

HandleMousePress(m, acts, pos) ==
    LET m1 == HandleMouseMove(m, acts, pos)
    IN  IF RectContains(pos)
        THEN ItemPressed(m1, acts, "Mouse")
        ELSE [m1 EXCEPT !.calls =
                 Append(@, Delegated("mousePressDelegate", pos, m1, acts))]

HandleMouseRelease(m, acts, pos) ==
    LET m1 == HandleMouseMove(m, acts, pos)
        m2 == ItemReleased(m1, acts, "Mouse")
    IN  IF ~RectContains(pos)
        THEN [m2 EXCEPT !.calls =
                 Append(@, Delegated("mouseReleaseDelegate", pos, m2, acts))]
        ELSE m2

(***************************************************************************)
(* handleKeyPress.  Keys: "Enter" (Enter / Return), "Forward" (Right, or   *)
(* Left under a right-to-left layout), "Up", "Down", "Other".              *)
(***************************************************************************)
\* Selectable without the separator test.
SelectableIgnoringSeparators(acts, i) == acts[i + 1].enabled

Selectable(acts, i) == acts[i + 1].enabled /\ ~acts[i + 1].sep

\* The do-while loop: the index it stops at and the iterations it made.
RECURSIVE ScanKey(_, _, _, _, _)
ScanKey(acts, start, cur, delta, steps) ==
    LET moved == cur + delta
        newSelected ==
            IF moved < 0 THEN moved + Len(acts)
            ELSE IF moved >= Len(acts) THEN moved - Len(acts)
            ELSE moved
    IN  IF newSelected # start /\ ~Selectable(acts, newSelected)
        THEN ScanKey(acts, start, newSelected, delta, steps + 1)
        ELSE [index |-> newSelected, steps |-> steps + 1]

\* HandleKeyPress whose forward arrow selects the first action without
\* leaving mouse-selection mode.
HandleKeyPressKeepsMode(m, acts, data, key) ==
    IF key = "Enter"
    THEN [m |-> ItemPressed(m, acts, "Keyboard"), steps |-> 0]
    ELSE IF key = "Forward" /\ m.selected >= 0 /\ data[m.selected + 1].hasSubmenu
    THEN [m |-> ItemPressed(m, acts, "Keyboard"), steps |-> 0]
    ELSE LET m1 == IF key = "Forward" /\ m.selected < 0 /\ acts # <<>>
                   THEN SetSelected(m, acts, 0)
                   ELSE m
         IN  IF (key # "Up" /\ key # "Down") \/ acts = <<>>
             THEN [m |-> m1, steps |-> 0]
             ELSE LET delta == IF key = "Down" THEN 1 ELSE -1
                      start == IF m1.selected < 0 \/ UGe(m1.selected, Len(acts))
                               THEN (IF delta > 0 THEN Len(acts) - 1 ELSE 0)
                               ELSE m1.selected
                      scan == ScanKey(acts, start, start, delta, 0)
                  IN  IF Selectable(acts, scan.index)
                      THEN [m |-> SetSelected([m1 EXCEPT !.mouseSelection = FALSE],
                                              acts, scan.index),
                            steps |-> scan.steps]
                      ELSE [m |-> m1, steps |-> scan.steps]

HandleKeyPress(m, acts, data, key) ==
    IF key = "Enter"
    THEN [m |-> ItemPressed(m, acts, "Keyboard"), steps |-> 0]
    ELSE IF key = "Forward" /\ m.selected >= 0 /\ data[m.selected + 1].hasSubmenu
    THEN [m |-> ItemPressed(m, acts, "Keyboard"), steps |-> 0]
    ELSE LET m1 == IF key = "Forward" /\ m.selected < 0 /\ acts # <<>>
                   THEN SetSelected([m EXCEPT !.mouseSelection = FALSE], acts, 0)
                   ELSE m
         IN  IF (key # "Up" /\ key # "Down") \/ acts = <<>>
             THEN [m |-> m1, steps |-> 0]
             ELSE LET delta == IF key = "Down" THEN 1 ELSE -1
                      start == IF m1.selected < 0 \/ UGe(m1.selected, Len(acts))
                               THEN (IF delta > 0 THEN Len(acts) - 1 ELSE 0)
                               ELSE m1.selected
                      scan == ScanKey(acts, start, start, delta, 0)
                  IN  IF Selectable(acts, scan.index)
                      THEN [m |-> SetSelected([m1 EXCEPT !.mouseSelection = FALSE],
                                              acts, scan.index),
                            steps |-> scan.steps]
                      ELSE [m |-> m1, steps |-> scan.steps]

(***************************************************************************)
(* Inputs.                                                                 *)
(***************************************************************************)
NormalAction(enabled, text, checkable, menu) ==
    [sep |-> FALSE, enabled |-> enabled, text |-> text,
     checkable |-> checkable, menu |-> menu]

\* What addSeparator creates.
SeparatorAction ==
    [sep |-> TRUE, enabled |-> TRUE, text |-> <<>>, checkable |-> FALSE, menu |-> FALSE]

\* Actions of the interaction specification: one text, every combination of
\* enabled and submenu, and the separator.
MenuActions ==
    {SeparatorAction} \cup
    {NormalAction(e, <<"a">>, FALSE, sub) : e \in BOOLEAN, sub \in BOOLEAN}

\* Texts of the layout specification: none, a short one, one with an
\* accelerator, a shortcut and a third tab-separated part, one wider than
\* widthMax.
Texts ==
    {<<>>, <<"a">>, <<Amp, "O", Tab, "C", Tab, "o">>,
     <<"a", "a", "a", "a", "a", "a", "a">>}

LayoutActions ==
    {SeparatorAction} \cup
    {NormalAction(TRUE, t, c, sub) : t \in Texts, c \in BOOLEAN, sub \in BOOLEAN}

ForceWidths == {0, WidthMin - 1, WidthMax + 1}

MaxY == 2 * Skip + MaxActions * ItemHeight

\* Every row from above the widget to below it in a column inside the widget,
\* and one point left of the widget (no handler reads the row of a point that
\* is outside horizontally, except updateSelected, which reads only the row).
Points ==
    {[x |-> 0, y |-> y] : y \in -1 .. MaxY} \cup {[x |-> -1, y |-> Skip]}

Keys == {"Enter", "Forward", "Up", "Down", "Other"}

Sources == {"Mouse", "Keyboard"}

Chars == {Amp, "a", "b"}

RECURSIVE SeqsUpTo(_, _)
SeqsUpTo(S, n) ==
    IF n = 0 THEN {<<>>}
    ELSE LET shorter == SeqsUpTo(S, n - 1)
         IN  shorter \cup {Append(q, c) : q \in {r \in shorter : Len(r) = n - 1}, c \in S}

ParseInputs == SeqsUpTo(Chars, MaxLen)

(***************************************************************************)
(* Operations.                                                             *)
(***************************************************************************)
Commit(m) ==
    /\ selected' = m.selected
    /\ pressed' = m.pressed
    /\ mouseSelection' = m.mouseSelection
    /\ actionsData' = m.data

Resized(m, acts) ==
    [m EXCEPT !.calls = Append(@, Call("resized", -1, 0, "None", m, acts))]

\* Menu::Menu and init(): an empty menu of the minimum width.
InitMenu ==
    /\ actions = <<>>
    /\ actionsData = <<>>
    /\ forceWidth = 0
    /\ width = (IF forceWidth # 0 THEN forceWidth ELSE WidthMin)
    /\ height = Skip * 2
    /\ selected = -1
    /\ pressed = -1
    /\ mouseSelection = FALSE
    /\ childShown = FALSE
    /\ sinceClear = TRUE

\* The selection part of addAction: the resized callback, then
\* updateSelected(QCursor::pos()) on the grown list.
AddActionSelection(m, action, cursor) ==
    LET acts == Append(actions, action)
    IN  UpdateSelected(Resized(m, acts), acts, cursor)

\* The ActionData that addAction pushes for the action.
NewActionData(action) ==
    [text |-> EmptyText, shortcut |-> <<>>, hasSubmenu |-> action.menu,
     ripple |-> FALSE, toggle |-> "none"]

\* _actionsData after the push_back and processAction of addAction.
AddActionData(data, action) ==
    Append(data, ProcessActionData(action, NewActionData(action)))

\* The width addAction resizes to.
AddActionWidth(action) ==
    LET newWidth == Max(width, WidthMin)
    IN  IF forceWidth # 0 THEN forceWidth
        ELSE ProcessActionWidth(action, NewActionData(action), newWidth)

\* addAction(action, icon, iconOver); cursor is QCursor::pos().
AddAction(action, cursor) ==
    /\ Len(actions) < MaxActions
    /\ actions' = Append(actions, action)
    /\ width' = AddActionWidth(action)
    /\ height' = height + ActionHeight(action)
    /\ Commit(AddActionSelection(
                  [Cur EXCEPT !.data = AddActionData(@, action)], action, cursor))
    /\ UNCHANGED <<forceWidth, childShown, sinceClear, besideMenu>>

\* ClearActionsSelection without setPressed(-1).
ClearActionsSelectionKeepsPressed(m, acts) ==
    Resized([SetSelected(m, acts, -1) EXCEPT !.data = <<>>], <<>>)

\* ClearActionsSelection resetting the selection after the removal.
ClearActionsSelectionAfterRemoval(m, acts) ==
    Resized([SetPressed(SetSelected(m, <<>>, -1), <<>>, -1) EXCEPT !.data = <<>>],
            <<>>)

\* The selection part of clearActions: setSelected(-1), setPressed(-1) on the
\* list as it is, then the removal and the resized callback.
ClearActionsSelection(m, acts) ==
    Resized([SetPressed(SetSelected(m, acts, -1), acts, -1) EXCEPT !.data = <<>>],
            <<>>)

ClearActions ==
    /\ Commit(ClearActionsSelection(Cur, actions))
    /\ actions' = <<>>
    /\ width' = (IF forceWidth # 0 THEN forceWidth ELSE WidthMin)
    /\ height' = Skip * 2
    /\ sinceClear' = TRUE
    /\ UNCHANGED <<forceWidth, childShown, besideMenu>>

\* SetShowSourceSelection leaving the selection mode as it is.
SetShowSourceSelectionKeepsMode(m, acts, source) ==
    SetSelected(m, acts, IF source = "Mouse" \/ acts = <<>> THEN -1 ELSE 0)

SetShowSourceSelection(m, acts, source) ==
    SetSelected([m EXCEPT !.mouseSelection = (source = "Mouse")], acts,
                IF source = "Mouse" \/ acts = <<>> THEN -1 ELSE 0)

Interaction(m) ==
    /\ Commit(m)
    /\ sinceClear' = FALSE
    /\ UNCHANGED <<actions, width, height, forceWidth, childShown, besideMenu>>

SetShowSource(source) == Interaction(SetShowSourceSelection(Cur, actions, source))

SetForceWidth(w) ==
    /\ forceWidth' = w
    /\ width' = w
    /\ sinceClear' = FALSE
    /\ UNCHANGED <<actions, actionsData, height, selected, pressed, mouseSelection,
                   childShown, besideMenu>>

\* The loop of actionChanged: processAction on every action, in order.
RECURSIVE ProcessAllWidth(_, _, _, _)
ProcessAllWidth(acts, data, index, w) ==
    IF index >= Len(acts) THEN w
    ELSE ProcessAllWidth(acts, data, index + 1,
                         ProcessActionWidth(acts[index + 1], data[index + 1], w))

\* The width actionChanged leaves the menu with.
ActionChangedWidth(acts) ==
    LET newWidth == ProcessAllWidth(acts, actionsData, 0, WidthMin)
    IN  IF newWidth # width /\ forceWidth = 0 THEN newWidth ELSE width

\* actionChanged(), run by QAction::changed after the action list became acts.
ActionChanged(acts) ==
    /\ actions' = acts
    /\ actionsData' = [i \in 1 .. Len(acts) |-> ProcessActionData(acts[i], actionsData[i])]
    /\ width' = ActionChangedWidth(acts)
    /\ sinceClear' = FALSE
    /\ UNCHANGED <<height, forceWidth, selected, pressed, mouseSelection, childShown,
                   besideMenu>>

\* QAction::setEnabled on an action of the menu.
ActionSetEnabled(i, b) ==
    /\ i < Len(actions)
    /\ actions[i + 1].enabled # b
    /\ ActionChanged([actions EXCEPT ![i + 1].enabled = b])

\* QAction::setText on an action of the menu.
ActionSetText(i, t) ==
    /\ i < Len(actions)
    /\ ~actions[i + 1].sep
    /\ actions[i + 1].text # t
    /\ ActionChanged([actions EXCEPT ![i + 1].text = t])

\* QAction::setCheckable on an action of the menu.
ActionSetCheckable(i, b) ==
    /\ i < Len(actions)
    /\ ~actions[i + 1].sep
    /\ actions[i + 1].checkable # b
    /\ ActionChanged([actions EXCEPT ![i + 1].checkable = b])

MouseMoveEvent(pos) == Interaction(HandleMouseMove(Cur, actions, pos))

MousePressEvent(pos) == Interaction(HandleMousePress(Cur, actions, pos))

MouseReleaseEvent(pos) == Interaction(HandleMouseRelease(Cur, actions, pos))

\* keyPressEvent for a key that _keyPressDelegate does not consume (a consumed
\* key changes nothing).
KeyPressEvent(key) == Interaction(HandleKeyPress(Cur, actions, actionsData, key).m)

ClearSelection == Interaction(ClearSelectionIn(Cur, actions))

\* enterEventHook; cursor is QCursor::pos().
EnterEventHook(m, acts, cursor) ==
    IF ~InnerContains(cursor) THEN ClearMouseSelection(m, acts) ELSE m

EnterEvent(cursor) == Interaction(EnterEventHook(Cur, actions, cursor))

LeaveEvent == Interaction(ClearMouseSelection(Cur, actions))

\* The ripple part of paintEvent: finished is the set of indices inside the
\* clip rectangle whose ripple, if they have one, is empty() after painting.
PaintRipples(data, acts, finished) ==
    [i \in 1 .. Len(data) |->
        IF (i - 1) \in finished /\ ~acts[i].sep /\ data[i].ripple
        THEN [data[i] EXCEPT !.ripple = FALSE]
        ELSE data[i]]

PaintEvent(finished) ==
    /\ actionsData' = PaintRipples(actionsData, actions, finished)
    /\ UNCHANGED <<actions, width, height, forceWidth, selected, pressed,
                   mouseSelection, childShown, sinceClear, besideMenu>>

\* finishAnimating(): every ripple is reset; ToggleView::finishAnimating does
\* not touch the style.
FinishAnimatingData(data) ==
    [i \in 1 .. Len(data) |-> [data[i] EXCEPT !.ripple = FALSE]]

FinishAnimating ==
    /\ actionsData' = FinishAnimatingData(actionsData)
    /\ UNCHANGED <<actions, width, height, forceWidth, selected, pressed,
                   mouseSelection, childShown, sinceClear, besideMenu>>

\* mousePressEvent whose ripple has finished and been painted away by the
\* time of the next event: the press, then a paint event of the whole widget
\* that finds every ripple empty.
MousePressPainted(pos) ==
    LET m == HandleMousePress(Cur, actions, pos)
    IN  Interaction([m EXCEPT !.data =
                        PaintRipples(@, actions, 0 .. Len(actions) - 1)])

SetChildShown(shown) ==
    /\ childShown # shown
    /\ childShown' = shown
    /\ sinceClear' = FALSE
    /\ UNCHANGED <<actions, actionsData, width, height, forceWidth, selected, pressed,
                   mouseSelection, besideMenu>>

ApplyParseMenuItem ==
    /\ ~parseDone
    /\ parseOut' = ParseMenuItem(parseIn)
    /\ parseDone' = TRUE
    /\ UNCHANGED <<menuVars, parseIn, settingsVars, windowVars>>

(***************************************************************************)
(* KotatoSettings (src/Telegram/SourceFiles/core/kotato_settings.cpp).     *)
(*                                                                         *)
(* A JSON value is [t, s, n, b]: its type and its string, number or        *)
(* boolean content.  A file is [exists, root, version, fonts, extra]: root *)
(* tells what QJsonDocument::fromJson makes of the text left by            *)
(* stripComments ("error", "array" or "object"); version and fonts are the *)
(* members of the root object with these names (t = "none" when absent),   *)
(* extra tells that it has a member of another name.  The fonts member is  *)
(* [t, main, semibold, semibold_is_bold, monospaced].                      *)
(*                                                                         *)
(* Whether a file can be opened is an input of the operation that opens    *)
(* it.  Time is counted in seconds.                                        *)
(***************************************************************************)
kWriteJsonTimeout == 5

AppKotatoVersion == 1001

JValue(t, str, n, b) == [t |-> t, s |-> str, n |-> n, b |-> b]
JNone == JValue("none", "", 0, FALSE)
JString(str) == JValue("string", str, 0, FALSE)
JNumber(n) == JValue("number", "", n, FALSE)
JBool(b) == JValue("bool", "", 0, b)

JFonts(t, main, semibold, isBold, monospaced) ==
    [t |-> t, main |-> main, semibold |-> semibold,
     semibold_is_bold |-> isBold, monospaced |-> monospaced]

\* A fonts member that is absent, and one that is not an object.
NoFonts == JFonts("none", JNone, JNone, JNone, JNone)
FontsOfWrongType == JFonts("string", JNone, JNone, JNone, JNone)

JFile(root, version, fonts, extra) ==
    [exists |-> TRUE, root |-> root, version |-> version, fonts |-> fonts,
     extra |-> extra]

MissingFile ==
    [exists |-> FALSE, root |-> "error", version |-> JNone, fonts |-> NoFonts,
     extra |-> FALSE]

\* QJsonValue::toInt(): the number, 0 for a value of another type.
ToInt(value) == IF value.t = "number" THEN value.n ELSE 0

\* DefaultFileIsValid(); canOpen: file.open(ReadOnly) succeeds.
DefaultFileIsValid(file, canOpen) ==
    /\ file.exists /\ canOpen
    /\ file.root = "object"
    /\ file.version.t # "none"
    /\ ToInt(file.version) = AppKotatoVersion

\* The document writeDefaultFile() writes.
DefaultDocument ==
    JFile("object", JString(ToString(AppKotatoVersion)),
          JFonts("object", JString("Open Sans"), JString("Open Sans Semibold"),
                 JBool(FALSE), JString("Consolas")),
          FALSE)

\* The bundled :/misc/default_kotato-settings-custom.json: an object whose
\* members are all commented out.
BundledCustomDocument == JFile("object", JNone, NoFonts, FALSE)

\* One write to a file, as the handlers below record it.
Written(name, document) == [file |-> name, document |-> document]

\* Manager::writeDefaultFile(); canOpen: file.open(WriteOnly) succeeds.
WriteDefaultFile(m, canOpen) ==
    IF ~canOpen THEN m
    ELSE [m EXCEPT !.defaultFile = DefaultDocument,
                   !.writes = Append(@, Written("default", DefaultDocument))]

\* WriteDefaultCustomFile(); canOpen: output.open(WriteOnly) succeeds.
WriteDefaultCustomFile(m, canOpen) ==
    IF ~canOpen THEN m
    ELSE [m EXCEPT !.customFile = BundledCustomDocument,
                   !.writes = Append(@, Written("custom", BundledCustomDocument))]

\* ReadFonts giving up the whole fonts member when one of its members has a
\* wrong type.
ReadFontsAllOrNothing(settings, fonts) ==
    IF \/ fonts.t # "object"
       \/ fonts.main.t \notin {"none", "string"}
       \/ fonts.semibold.t \notin {"none", "string"}
       \/ fonts.semibold_is_bold.t \notin {"none", "bool"}
       \/ fonts.monospaced.t \notin {"none", "string"}
    THEN settings
    ELSE [main |-> IF fonts.main.t = "string" THEN fonts.main.s ELSE settings.main,
          semibold |-> IF fonts.semibold.t = "string"
                       THEN fonts.semibold.s ELSE settings.semibold,
          semiboldIsBold |-> IF fonts.semibold_is_bold.t = "bool"
                             THEN fonts.semibold_is_bold.b
                             ELSE settings.semiboldIsBold,
          monospaced |-> IF fonts.monospaced.t = "string"
                         THEN fonts.monospaced.s ELSE settings.monospaced]

\* The settings readCustomFile() leaves for an object with these fonts.
ReadFonts(settings, fonts) ==
    IF fonts.t # "object" THEN settings
    ELSE [main |-> IF fonts.main.t = "string" THEN fonts.main.s ELSE settings.main,
          semibold |-> IF fonts.semibold.t = "string"
                       THEN fonts.semibold.s ELSE settings.semibold,
          semiboldIsBold |-> IF fonts.semibold_is_bold.t = "bool"
                             THEN fonts.semibold_is_bold.b
                             ELSE settings.semiboldIsBold,
          monospaced |-> IF fonts.monospaced.t = "string"
                         THEN fonts.monospaced.s ELSE settings.monospaced]

IsEmptyObject(file) ==
    file.version.t = "none" /\ file.fonts.t = "none" /\ ~file.extra

\* Manager::readCustomFile(): the state it leaves and what it returns.
ReadCustomFile(m, canOpen) ==
    IF ~m.customFile.exists THEN [m |-> m, result |-> FALSE]
    ELSE IF ~canOpen THEN [m |-> m, result |-> TRUE]
    ELSE IF m.customFile.root # "object" THEN [m |-> m, result |-> TRUE]
    ELSE IF IsEmptyObject(m.customFile) THEN [m |-> m, result |-> TRUE]
    ELSE [m |-> [m EXCEPT !.fontSettings = ReadFonts(@, m.customFile.fonts)],
          result |-> TRUE]

\* Manager::fill(); io tells which of the files can be opened.
Fill(m, io) ==
    LET m1 == IF ~DefaultFileIsValid(m.defaultFile, io.defaultRead)
              THEN WriteDefaultFile(m, io.defaultWrite) ELSE m
        read == ReadCustomFile(m1, io.customRead)
    IN  IF ~read.result THEN WriteDefaultCustomFile(read.m, io.customWrite)
        ELSE read.m

\* QTimer::stop() and QTimer::start(msec) of the single-shot timer.
TimerStop(m) == [m EXCEPT !.jsonWriteTimer = [active |-> FALSE, left |-> 0]]

TimerStart(m, timeout) ==
    [m EXCEPT !.jsonWriteTimer = [active |-> TRUE, left |-> timeout]]

\* CurrentDocument leaving out a semibold_is_bold that is false.
CurrentDocumentWithoutFalse(settings) ==
    JFile("object", JNone,
          JFonts("object",
                 IF settings.main # "" THEN JString(settings.main) ELSE JNone,
                 IF settings.semibold # "" THEN JString(settings.semibold) ELSE JNone,
                 IF settings.semiboldIsBold THEN JBool(TRUE) ELSE JNone,
                 IF settings.monospaced # ""
                 THEN JString(settings.monospaced) ELSE JNone),
          FALSE)

\* The document writeCurrentSettings() makes of the settings.
CurrentDocument(settings) ==
    JFile("object", JNone,
          JFonts("object",
                 IF settings.main # "" THEN JString(settings.main) ELSE JNone,
                 IF settings.semibold # "" THEN JString(settings.semibold) ELSE JNone,
                 JBool(settings.semiboldIsBold),
                 IF settings.monospaced # ""
                 THEN JString(settings.monospaced) ELSE JNone),
          FALSE)

\* Manager::writeCurrentSettings(); canOpen: file.open(WriteOnly) succeeds.
WriteCurrentSettings(m, canOpen) ==
    IF ~canOpen THEN m
    ELSE LET m1 == IF m.jsonWriteTimer.active THEN TimerStop(m) ELSE m
             document == CurrentDocument(m1.fontSettings)
         IN  [m1 EXCEPT !.customFile = document,
                        !.writes = Append(@, Written("custom", document))]

\* Manager::writeTimeout().
WriteTimeout(m, canOpen) == WriteCurrentSettings(m, canOpen)

\* ManagerWrite starting the timer anew on every request.
ManagerWriteRestartsTimer(m, force, canOpen) ==
    IF force /\ m.jsonWriteTimer.active
    THEN WriteTimeout(TimerStop(m), canOpen)
    ELSE IF ~force
    THEN TimerStart(m, kWriteJsonTimeout)
    ELSE m

\* ManagerWrite writing at once on a request that finds a write pending.
ManagerWriteEachRequest(m, force, canOpen) ==
    IF m.jsonWriteTimer.active
    THEN WriteTimeout(IF force THEN TimerStop(m) ELSE m, canOpen)
    ELSE IF ~force
    THEN TimerStart(m, kWriteJsonTimeout)
    ELSE m

\* ManagerWrite leaving the timer running on a forced write.
ManagerWriteWithoutStop(m, force, canOpen) ==
    IF force /\ m.jsonWriteTimer.active
    THEN WriteTimeout(m, canOpen)
    ELSE IF ~force /\ ~m.jsonWriteTimer.active
    THEN TimerStart(m, kWriteJsonTimeout)
    ELSE m

\* Manager::write(force).
ManagerWrite(m, force, canOpen) ==
    IF force /\ m.jsonWriteTimer.active
    THEN WriteTimeout(TimerStop(m), canOpen)
    ELSE IF ~force /\ ~m.jsonWriteTimer.active
    THEN TimerStart(m, kWriteJsonTimeout)
    ELSE m

\* KotatoSettings::Start(), Write() and Finish().
StartIn(m, io) == IF m.Data THEN m ELSE Fill([m EXCEPT !.Data = TRUE], io)

WriteIn(m) == IF ~m.Data THEN m ELSE ManagerWrite(m, FALSE, TRUE)

FinishIn(m, canOpen) == IF ~m.Data THEN m ELSE ManagerWrite(m, TRUE, canOpen)

\* The timer's timeout signal: the single-shot timer is stopped before the
\* slot writeTimeout() runs.
TimeoutIn(m, canOpen) == WriteTimeout(TimerStop(m), canOpen)

SettingsCur ==
    [Data |-> Data, jsonWriteTimer |-> jsonWriteTimer, fontSettings |-> fontSettings,
     customFile |-> customFile, defaultFile |-> defaultFile, writes |-> <<>>]

CommitSettings(m) ==
    /\ Data' = m.Data
    /\ jsonWriteTimer' = m.jsonWriteTimer
    /\ fontSettings' = m.fontSettings
    /\ customFile' = m.customFile
    /\ defaultFile' = m.defaultFile

besideSettings == <<menuVars, parseVars, windowVars>>

OpenResults ==
    [defaultRead : BOOLEAN, defaultWrite : BOOLEAN,
     customRead : BOOLEAN, customWrite : BOOLEAN]

\* The request a handler leaves unwritten: none once it wrote the settings.
Unwritten(m) == IF m.writes # <<>> THEN FALSE ELSE unwritten

Start(io) ==
    /\ CommitSettings(StartIn(SettingsCur, io))
    /\ UNCHANGED <<sinceWrite, unwritten, besideSettings>>

Write ==
    /\ CommitSettings(WriteIn(SettingsCur))
    /\ sinceWrite' = (IF Data THEN 0 ELSE sinceWrite)
    /\ unwritten' = (Data \/ unwritten)
    /\ UNCHANGED besideSettings

Finish(canOpen) ==
    /\ CommitSettings(FinishIn(SettingsCur, canOpen))
    /\ unwritten' = Unwritten(FinishIn(SettingsCur, canOpen))
    /\ UNCHANGED <<sinceWrite, besideSettings>>

\* The event loop delivers the timeout of the expired timer.
Timeout(canOpen) ==
    /\ jsonWriteTimer.active
    /\ jsonWriteTimer.left = 0
    /\ CommitSettings(TimeoutIn(SettingsCur, canOpen))
    /\ unwritten' = Unwritten(TimeoutIn(SettingsCur, canOpen))
    /\ UNCHANGED <<sinceWrite, besideSettings>>

\* One second passes.
Tick ==
    /\ jsonWriteTimer' =
          [jsonWriteTimer EXCEPT !.left = IF @ > 0 THEN @ - 1 ELSE 0]
    /\ sinceWrite' = (IF sinceWrite < kWriteJsonTimeout THEN sinceWrite + 1
                      ELSE sinceWrite)
    /\ UNCHANGED <<Data, unwritten, fontSettings, customFile, defaultFile,
                   besideSettings>>

\* cSetMainFont, cSetSemiboldFont, cSetSemiboldFontIsBold, cSetMonospaceFont by
\* the owner of the settings.
SetFontSettings(settings) ==
    /\ fontSettings # settings
    /\ fontSettings' = settings
    /\ UNCHANGED <<Data, jsonWriteTimer, sinceWrite, unwritten, customFile,
                   defaultFile, besideSettings>>

FontSettings(main, semibold, isBold, monospaced) ==
    [main |-> main, semibold |-> semibold, semiboldIsBold |-> isBold,
     monospaced |-> monospaced]

(***************************************************************************)
(* WindowHelper::NativeFilter (src/ui/platform/win/ui_window_win.cpp).     *)
(* A helper is known by its address, which a later helper may get again    *)
(* once the first is destroyed; helperHandle gives the _handle of a live   *)
(* helper and NoHandle for an address that holds none.  windowByHandle     *)
(* gives the helper a handle maps to, NoHelper when the map has no entry.  *)
(***************************************************************************)
Helpers == 1 .. MaxHelpers

Handles == 1 .. MaxHandles

NoHandle == 0

NoHelper == 0

\* base::flat_map::emplace: no effect when the key is present.
RegisterWindow(map, handle, helper) ==
    IF map[handle] # NoHelper THEN map ELSE [map EXCEPT ![handle] = helper]

\* UnregisterWindow leaving the entry in the map.
UnregisterWindowKeepsEntry(map, handle) == map

\* base::flat_map::remove.
UnregisterWindow(map, handle) == [map EXCEPT ![handle] = NoHelper]

\* nativeEventFilter for a message to hwnd: the helper whose
\* handleNativeEvent is called (NoHelper for none) and the value returned;
\* handled is what handleNativeEvent returns.
NativeEventFilter(map, hwnd, handled) ==
    IF map[hwnd] # NoHelper
    THEN [helper |-> map[hwnd], result |-> handled]
    ELSE [helper |-> NoHelper, result |-> FALSE]

besideWindow == <<menuVars, parseVars, settingsVars>>

\* WindowHelper::WindowHelper for a window of this handle, at this address.
ConstructHelper(helper, handle) ==
    /\ helperHandle[helper] = NoHandle
    /\ helperHandle' = [helperHandle EXCEPT ![helper] = handle]
    /\ helperEvents' = [helperEvents EXCEPT ![helper] = FALSE]
    /\ windowByHandle' = RegisterWindow(windowByHandle, handle, helper)
    /\ UNCHANGED besideWindow

\* WindowHelper::~WindowHelper.
DestroyHelper(helper) ==
    /\ helperHandle[helper] # NoHandle
    /\ windowByHandle' = UnregisterWindow(windowByHandle, helperHandle[helper])
    /\ helperHandle' = [helperHandle EXCEPT ![helper] = NoHandle]
    /\ helperEvents' = [helperEvents EXCEPT ![helper] = FALSE]
    /\ UNCHANGED besideWindow

\* A native message for hwnd passes through the filter: handleNativeEvent
\* runs on the object the map gives, whether a helper lives there or not.
NativeEvent(hwnd, handled) ==
    /\ LET to == NativeEventFilter(windowByHandle, hwnd, handled).helper
       IN  helperEvents' = (IF to = NoHelper THEN helperEvents
                            ELSE [helperEvents EXCEPT ![to] = TRUE])
    /\ UNCHANGED <<helperHandle, windowByHandle, besideWindow>>

InitWindowIdle ==
    /\ helperHandle = [helper \in Helpers |-> NoHandle]
    /\ helperEvents = [helper \in Helpers |-> FALSE]
    /\ windowByHandle = [handle \in Handles |-> NoHelper]

(***************************************************************************)
(* Specifications.                                                         *)
(*   Spec        the menu under pointer, keyboard and owner operations     *)
(*   SpecLayout  the menu's size under every kind of action text, property *)
(*               changes and forced widths                                 *)
(*   SpecParse   ParseMenuItem on every string over Chars up to MaxLen     *)
(*   SpecSettings  the settings manager: start on every kind of file,      *)
(*               debounced and forced writes, the timer, changes of the    *)
(*               settings                                                  *)
(*   SpecWindow  constructions and destructions of window helpers and      *)
(*               native messages                                           *)
(*   SpecClear   clearActions on menus with a selection, a pressed action  *)
(*               and forced widths                                         *)
(***************************************************************************)
InitParseIdle ==
    /\ parseIn = <<>>
    /\ parseDone = FALSE
    /\ parseOut = EmptyText

\* No settings manager: KotatoSettings::Start() has not run.
InitSettingsIdle ==
    /\ Data = FALSE
    /\ jsonWriteTimer = [active |-> FALSE, left |-> 0]
    /\ sinceWrite = kWriteJsonTimeout
    /\ unwritten = FALSE
    /\ fontSettings = FontSettings("", "", FALSE, "")
    /\ customFile = MissingFile
    /\ defaultFile = MissingFile

Init == InitMenu /\ InitParseIdle /\ InitSettingsIdle /\ InitWindowIdle

\* The menu of Spec: every selection handler.  Ripples finish and are
\* painted away between two events (SpecVisual has the other interleavings).
Next ==
    \/ \E a \in MenuActions, cursor \in Points : AddAction(a, cursor)
    \/ ClearActions
    \/ \E source \in Sources : SetShowSource(source)
    \/ \E pos \in Points : MouseMoveEvent(pos)
    \/ \E pos \in Points : MousePressPainted(pos)
    \/ \E pos \in Points : MouseReleaseEvent(pos)
    \/ \E key \in Keys : KeyPressEvent(key)
    \/ ClearSelection
    \/ \E cursor \in Points : EnterEvent(cursor)
    \/ LeaveEvent
    \/ \E shown \in BOOLEAN : SetChildShown(shown)
    \/ \E i \in 0 .. MaxActions - 1, b \in BOOLEAN : ActionSetEnabled(i, b)

Spec == Init /\ [][Next]_vars

NextLayout ==
    \/ \E a \in LayoutActions :
          Len(actions) < MaxLayoutActions /\ AddAction(a, [x |-> 0, y |-> 0])
    \/ ClearActions
    \/ \E w \in ForceWidths : SetForceWidth(w)
    \/ \E i \in 0 .. MaxLayoutActions - 1, t \in Texts : ActionSetText(i, t)
    \/ \E i \in 0 .. MaxLayoutActions - 1, b \in BOOLEAN : ActionSetCheckable(i, b)

SpecLayout == Init /\ [][NextLayout]_vars

InitParse ==
    /\ InitMenu
    /\ InitSettingsIdle
    /\ InitWindowIdle
    /\ parseIn \in ParseInputs
    /\ parseDone = FALSE
    /\ parseOut = EmptyText

NextParse == ApplyParseMenuItem

SpecParse == InitParse /\ [][NextParse]_vars

\* The font settings the owner sets, and those the process starts with.
SettingsValues ==
    {FontSettings("", "", FALSE, ""),
     FontSettings("A", "", TRUE, "M"),
     FontSettings("B", "S", FALSE, "")}

\* The custom file found at start: none, text that is no JSON, an array, an
\* empty object, an object without fonts, one whose fonts member is no
\* object, one whose fonts have members of a wrong type, and a complete one.
CustomFiles ==
    {MissingFile,
     JFile("error", JNone, NoFonts, FALSE),
     JFile("array", JNone, NoFonts, FALSE),
     JFile("object", JNone, NoFonts, FALSE),
     JFile("object", JNone, NoFonts, TRUE),
     JFile("object", JNone, FontsOfWrongType, TRUE),
     JFile("object", JNone,
           JFonts("object", JNumber(1), JString("D"), JString("true"), JString("E")),
           FALSE),
     JFile("object", JNone,
           JFonts("object", JString("C"), JString("D"), JBool(TRUE), JString("E")),
           FALSE)}

\* The default file found at start: none, unparsable, one with the version
\* as a number (this version and another one), and one left by
\* writeDefaultFile.
DefaultFiles ==
    {MissingFile,
     JFile("error", JNone, NoFonts, FALSE),
     JFile("object", JNumber(AppKotatoVersion), NoFonts, FALSE),
     JFile("object", JNumber(AppKotatoVersion - 1), NoFonts, FALSE),
     DefaultDocument}

InitSettings ==
    /\ InitMenu
    /\ InitParseIdle
    /\ InitWindowIdle
    /\ Data = FALSE
    /\ jsonWriteTimer = [active |-> FALSE, left |-> 0]
    /\ sinceWrite = kWriteJsonTimeout
    /\ unwritten = FALSE
    /\ fontSettings \in SettingsValues
    /\ customFile \in CustomFiles
    /\ defaultFile \in DefaultFiles

NextSettings ==
    \/ \E io \in OpenResults : Start(io)
    \/ Write
    \/ \E canOpen \in BOOLEAN : Finish(canOpen)
    \/ \E canOpen \in BOOLEAN : Timeout(canOpen)
    \/ Tick
    \/ \E settings \in SettingsValues : SetFontSettings(settings)

SpecSettings == InitSettings /\ [][NextSettings]_vars

\* The settings under the assumption that the custom file can be opened for
\* writing, time passes and the event loop delivers the timeout of an expired
\* timer.
NextSettingsOpened ==
    \/ \E io \in OpenResults : Start(io)
    \/ Write
    \/ Finish(TRUE)
    \/ Timeout(TRUE)
    \/ Tick
    \/ \E settings \in SettingsValues : SetFontSettings(settings)

SpecSettingsLive ==
    /\ InitSettings
    /\ [][NextSettingsOpened]_vars
    /\ WF_vars(Tick)
    /\ WF_vars(Timeout(TRUE))

NextWindow ==
    \/ \E helper \in Helpers, handle \in Handles : ConstructHelper(helper, handle)
    \/ \E helper \in Helpers : DestroyHelper(helper)
    \/ \E hwnd \in Handles, handled \in BOOLEAN : NativeEvent(hwnd, handled)

SpecWindow == Init /\ [][NextWindow]_vars

\* Actions of the rendering specification: every combination of enabled and
\* checkable, and the separator.
VisualActions ==
    {SeparatorAction} \cup
    {NormalAction(e, <<"a">>, c, FALSE) : e \in BOOLEAN, c \in BOOLEAN}

\* The menu of SpecVisual: checkable actions, pointer and keyboard presses,
\* paint events and finishAnimating.
NextVisual ==
    \/ \E a \in VisualActions, cursor \in Points :
          Len(actions) < MaxVisualActions /\ AddAction(a, cursor)
    \/ ClearActions
    \/ \E source \in Sources : SetShowSource(source)
    \/ \E pos \in Points : MouseMoveEvent(pos)
    \/ \E pos \in Points : MousePressEvent(pos)
    \/ \E pos \in Points : MouseReleaseEvent(pos)
    \/ \E key \in Keys : KeyPressEvent(key)
    \/ \E i \in 0 .. MaxVisualActions - 1, b \in BOOLEAN : ActionSetEnabled(i, b)
    \/ \E i \in 0 .. MaxVisualActions - 1, b \in BOOLEAN : ActionSetCheckable(i, b)
    \/ \E finished \in SUBSET (0 .. MaxVisualActions - 1) : PaintEvent(finished)
    \/ FinishAnimating

SpecVisual == Init /\ [][NextVisual]_vars

\* The menu of SpecClear: appends under the pointer, presses, both show
\* sources, forced widths and clearActions.
NextClear ==
    \/ \E a \in MenuActions, cursor \in Points : AddAction(a, cursor)
    \/ ClearActions
    \/ \E w \in ForceWidths : SetForceWidth(w)
    \/ \E pos \in Points : MousePressEvent(pos)
    \/ \E source \in Sources : SetShowSource(source)

SpecClear == Init /\ [][NextClear]_vars

(***************************************************************************)
(* Vocabulary of the properties, stated on the action list itself.         *)
(***************************************************************************)
Indices == 0 .. Len(actions) - 1

IsSeparatorAt(i) == actions[i + 1].sep

IsEnabledAt(i) == actions[i + 1].enabled

IsNavigable(i) == IsEnabledAt(i) /\ ~IsSeparatorAt(i)

HeightAt(i) == IF IsSeparatorAt(i) THEN SeparatorHeight ELSE ItemHeight

RECURSIVE HeightBefore(_)
HeightBefore(i) == IF i <= 0 THEN 0 ELSE HeightBefore(i - 1) + HeightAt(i - 1)

MinOf(S) == CHOOSE x \in S : \A y \in S : x <= y

MaxOf(S) == CHOOSE x \in S : \A y \in S : x >= y

Triggered(m) == SelectSeq(m.calls, LAMBDA c : c.cb = "triggered")

(***************************************************************************)
(* C1.  _selected and _pressed are always -1 or a valid index into the     *)
(* action list, and setSelected / setPressed store -1 when given an index  *)
(* at or beyond the number of actions.                                     *)
(***************************************************************************)
C1_IndicesValid ==
    /\ selected \in {-1} \cup Indices
    /\ pressed \in {-1} \cup Indices
    /\ \A i \in Len(actions) .. MaxActions + 1 :
          /\ SetSelected(Cur, actions, i).selected = -1
          /\ SetPressed(Cur, actions, i).pressed = -1

C1_Witness ==
    /\ Len(actions) >= 2
    /\ selected = Len(actions) - 1
    /\ pressed = selected

(***************************************************************************)
(* C2.  As claimed: the width always lies within [widthMin, widthMax].     *)
(* setForceWidth refutes it.  Amended: the width is the value last given   *)
(* to setForceWidth or lies within [widthMin, widthMax].                   *)
(***************************************************************************)
C2_WidthWithinBounds == WidthMin <= width /\ width <= WidthMax

C2_WidthForcedOrWithinBounds ==
    width = forceWidth \/ (WidthMin <= width /\ width <= WidthMax)

C2_Witness ==
    /\ forceWidth = 0
    /\ width = WidthMax
    /\ \E i \in Indices :
          /\ actions[i + 1].text # <<>>
          /\ PaddingLeft + PaddingRight + Len(actions[i + 1].text) * CharWidth > WidthMax

(***************************************************************************)
(* C3.  On a non-empty list an Up or Down key moves the selection to the   *)
(* nearest enabled non-separator action in that direction, wrapping around *)
(* (from no selection: the first one for Down, the last one for Up); it    *)
(* never moves the selection onto a disabled action or a separator; when   *)
(* no action is enabled and not a separator the selection is unchanged;    *)
(* and the scan makes at most one pass over the list.                      *)
(***************************************************************************)
Navigable == {i \in Indices : IsNavigable(i)}

NearestNavigable(from, key) ==
    IF Navigable = {} THEN from
    ELSE IF key = "Down"
         THEN IF \E i \in Navigable : i > from
              THEN MinOf({i \in Navigable : i > from})
              ELSE MinOf(Navigable)
         ELSE IF from >= 0 /\ \E i \in Navigable : i < from
              THEN MaxOf({i \in Navigable : i < from})
              ELSE MaxOf(Navigable)

C3_UpDownNavigation ==
    actions # <<>> =>
        \A key \in {"Up", "Down"} :
            LET r == HandleKeyPress(Cur, actions, actionsData, key)
            IN  /\ r.m.selected = NearestNavigable(selected, key)
                /\ (r.m.selected # selected => IsNavigable(r.m.selected))
                /\ (Navigable = {} => r.m.selected = selected)
                /\ 1 <= r.steps /\ r.steps <= Len(actions)

\* Down from the last navigable action wraps around to an earlier one, over
\* an action that is skipped.
C3_Witness ==
    /\ selected >= 0
    /\ \E i \in Indices : ~IsNavigable(i) /\ i # selected
    /\ HandleKeyPress(Cur, actions, actionsData, "Down").m.selected \in 0 .. selected - 1
    /\ HandleKeyPress(Cur, actions, actionsData, "Up").m.selected # selected

(***************************************************************************)
(* C4.  In mouse-selection mode updateSelected selects the action whose    *)
(* vertical span, measured below the top padding strip, contains the       *)
(* pointer, provided it is enabled and not a separator, and -1 otherwise,  *)
(* also above the first action and below the last one; separators and      *)
(* disabled actions take up their height.                                  *)
(***************************************************************************)
ActionUnder(y) ==
    IF \E i \in Indices : HeightBefore(i) <= y /\ y < HeightBefore(i) + HeightAt(i)
    THEN LET i == CHOOSE j \in Indices :
                      HeightBefore(j) <= y /\ y < HeightBefore(j) + HeightAt(j)
         IN  IF IsNavigable(i) THEN i ELSE -1
    ELSE -1

C4_UpdateSelectedHitTest ==
    mouseSelection =>
        \A pos \in Points :
            UpdateSelected(Cur, actions, pos).selected = ActionUnder(pos.y - Skip)

\* The pointer hovers the second action, below a separator.
C4_Witness ==
    /\ mouseSelection
    /\ Len(actions) >= 2
    /\ IsSeparatorAt(0)
    /\ selected = 1
    /\ \E pos \in Points : UpdateSelected(Cur, actions, pos).selected = -1

(***************************************************************************)
(* C5.  A pointer release over the pressed action, while it is still the   *)
(* selected one, invokes the triggered callback exactly once, with that    *)
(* action, its vertical offset and the source Mouse; the pointer press     *)
(* itself invokes it zero times.                                           *)
(***************************************************************************)
\* pos is a position whose press leaves exactly the current state, with the
\* selected action pressed: the state every successful press at pos ends in.
PressedAt(pos) ==
    LET m == HandleMousePress(Cur, actions, pos)
    IN  /\ RectContains(pos)
        /\ pressed >= 0
        /\ pressed = selected
        /\ m.selected = selected /\ m.pressed = pressed
        /\ m.mouseSelection = mouseSelection

C5_PressReleaseTriggersOnce ==
    \A pos \in Points :
        LET released == HandleMouseRelease(Cur, actions, pos)
            trig == Triggered(released)
        IN  /\ Triggered(HandleMousePress(Cur, actions, pos)) = <<>>
            /\ (PressedAt(pos) /\ IsEnabledAt(pressed)) => released.selected = pressed
            /\ (pressed >= 0 /\ released.selected = pressed) =>
                  /\ Len(trig) = 1
                  /\ trig[1].index = pressed
                  /\ trig[1].top = Skip + HeightBefore(pressed)
                  /\ trig[1].source = "Mouse"

C5_Witness ==
    /\ pressed >= 1
    /\ mouseSelection
    /\ \E pos \in Points :
          /\ InnerContains(pos)
          /\ PressedAt(pos)
          /\ Len(Triggered(HandleMouseRelease(Cur, actions, pos))) = 1

TriggeredAfterReset(m) ==
    \A k \in 1 .. Len(m.calls) : m.calls[k].cb = "triggered" => m.calls[k].pressed = -1

C7_ReleaseResetsPressed ==
    /\ \A source \in Sources :
          LET m == ItemReleased(Cur, actions, source)
          IN  m.pressed = -1 /\ TriggeredAfterReset(m)
    /\ \A pos \in Points :
          LET m == HandleMouseRelease(Cur, actions, pos)
          IN  m.pressed = -1 /\ TriggeredAfterReset(m)
    /\ \A key \in Keys :
          LET m == HandleKeyPress(Cur, actions, actionsData, key).m
          IN  Triggered(m) # <<>> => m.pressed = -1 /\ TriggeredAfterReset(m)

\* An action is pressed by the pointer and a release over it triggers it.
C7_Witness ==
    /\ pressed = 0
    /\ \E pos \in Points :
          LET m == HandleMouseRelease(Cur, actions, pos)
          IN  Len(Triggered(m)) = 1 /\ m.pressed = -1

(***************************************************************************)
(* C8.  As claimed: after clearActions followed by any number of appends,  *)
(* selected = -1 and pressed = -1.  An append in mouse-selection mode      *)
(* refutes it.  Amended: pressed = -1; selected = -1 when mouse-selection  *)
(* mode is off, and otherwise selected is -1 or an enabled non-separator   *)
(* action.                                                                 *)
(***************************************************************************)
C8_ClearThenAppendSelectsNone ==
    sinceClear => selected = -1 /\ pressed = -1

C8_ClearThenAppend ==
    sinceClear =>
        /\ pressed = -1
        /\ (~mouseSelection => selected = -1)
        /\ (selected # -1 => selected \in Indices /\ IsNavigable(selected))

\* Appends after a clearActions in mouse-selection mode, the pointer over an
\* appended action.
C8_Witness ==
    /\ sinceClear
    /\ mouseSelection
    /\ Len(actions) >= 2
    /\ selected >= 0

(***************************************************************************)
(* C9.  The height is 2 * skip plus the sum, over the actions, of          *)
(* separatorHeight for a separator and itemHeight for any other action.    *)
(***************************************************************************)
C9_HeightIsSumOfItems ==
    height = 2 * Skip + HeightBefore(Len(actions))

C9_Witness ==
    /\ Len(actions) >= 2
    /\ \E i \in Indices : IsSeparatorAt(i)
    /\ \E i \in Indices : ~IsSeparatorAt(i)
    /\ height = 2 * Skip + HeightBefore(Len(actions))

(***************************************************************************)
(* C10.  ParseMenuItem: "&&" gives one "&" and no entity; "&" before any   *)
(* other character c is removed, c is kept and underlined (one entity of   *)
(* length 1 at c's offset in the result); a lone "&" at the end is dropped *)
(* and every other character is copied in order.                           *)
(***************************************************************************)
RECURSIVE ExpectedText(_)
ExpectedText(s) ==
    IF s = <<>> THEN <<>>
    ELSE IF Head(s) # Amp THEN <<Head(s)>> \o ExpectedText(Tail(s))
    ELSE IF Len(s) = 1 THEN <<>>
    ELSE <<s[2]>> \o ExpectedText(SubSeq(s, 3, Len(s)))

RECURSIVE ExpectedEntities(_, _)
ExpectedEntities(s, offset) ==
    IF s = <<>> THEN <<>>
    ELSE IF Head(s) # Amp THEN ExpectedEntities(Tail(s), offset + 1)
    ELSE IF Len(s) = 1 THEN <<>>
    ELSE IF s[2] = Amp THEN ExpectedEntities(SubSeq(s, 3, Len(s)), offset + 1)
    ELSE <<[type |-> "Underline", offset |-> offset, length |-> 1]>>
         \o ExpectedEntities(SubSeq(s, 3, Len(s)), offset + 1)

C10_ParseMenuItem ==
    /\ parseDone =>
          /\ parseOut.text = ExpectedText(parseIn)
          /\ parseOut.entities = ExpectedEntities(parseIn, 0)
    /\ ParseMenuItem(<<"&", "O", "p", "e", "n">>) =
          [text |-> <<"O", "p", "e", "n">>,
           entities |-> <<[type |-> "Underline", offset |-> 0, length |-> 1]>>]
    /\ ParseMenuItem(<<"A", "&", "&", "B">>) =
          [text |-> <<"A", "&", "B">>, entities |-> <<>>]

\* "a&&b" has been parsed.
C10_Witness ==
    /\ parseDone
    /\ parseIn = <<"a", Amp, Amp, "b">>
    /\ parseOut = [text |-> <<"a", Amp, "b">>, entities |-> <<>>]

(***************************************************************************)
(* C11.  For a non-separator action with non-empty text the cached display *)
(* text is made from segment 0 of the text split at tabs (its accelerator  *)
(* markup resolved as in C10) and the cached shortcut is segment 1 when    *)
(* there are at least two segments and empty otherwise; for a separator or *)
(* an action with empty text both are cleared.                             *)
(***************************************************************************)
TabPositions(text) == {k \in 1 .. Len(text) : text[k] = Tab}

SegmentCount(text) == Cardinality(TabPositions(text)) + 1

\* The position of the n-th tab (n >= 1); 0 and Len + 1 stand for the ends.
TabAt(text, n) ==
    IF n = 0 THEN 0
    ELSE IF n > Cardinality(TabPositions(text)) THEN Len(text) + 1
    ELSE CHOOSE p \in TabPositions(text) :
            Cardinality({q \in TabPositions(text) : q < p}) = n - 1

Segment(text, n) == SubSeq(text, TabAt(text, n) + 1, TabAt(text, n + 1) - 1)

C11_TextAndShortcut ==
    \A i \in Indices :
        LET raw == actions[i + 1].text
            data == actionsData[i + 1]
        IN  IF IsSeparatorAt(i) \/ raw = <<>>
            THEN data.text = EmptyText /\ data.shortcut = <<>>
            ELSE /\ data.text.text = ExpectedText(Segment(raw, 0))
                 /\ data.text.entities = ExpectedEntities(Segment(raw, 0), 0)
                 /\ data.shortcut =
                       (IF SegmentCount(raw) >= 2 THEN Segment(raw, 1) ELSE <<>>)

\* A text of three segments next to an action without text.
C11_Witness ==
    /\ Len(actions) = 2
    /\ SegmentCount(actions[1].text) = 3
    /\ actionsData[1].shortcut = <<"C">>
    /\ actionsData[1].text.text = <<"O">>
    /\ ~IsSeparatorAt(1) /\ actions[2].text = <<>>
    /\ actionsData[2].shortcut = <<>>

(***************************************************************************)
(* C12.  setShowSource(Mouse) turns mouse-selection mode on and sets       *)
(* selected to -1; setShowSource(Keyboard) turns it off and sets selected  *)
(* to 0 on a non-empty list and to -1 on an empty one.                     *)
(***************************************************************************)
C12_SetShowSource ==
    LET mouse == SetShowSourceSelection(Cur, actions, "Mouse")
        keyboard == SetShowSourceSelection(Cur, actions, "Keyboard")
    IN  /\ mouse.mouseSelection /\ mouse.selected = -1
        /\ ~keyboard.mouseSelection
        /\ keyboard.selected = (IF Len(actions) > 0 THEN 0 ELSE -1)
        /\ mouse.pressed = pressed /\ keyboard.pressed = pressed

\* The pointer selects the second action; setShowSource in either direction
\* changes both the mode and the selection.
C12_Witness ==
    /\ mouseSelection
    /\ selected = 1
    /\ SetShowSourceSelection(Cur, actions, "Keyboard").selected = 0
    /\ ~SetShowSourceSelection(Cur, actions, "Keyboard").mouseSelection
    /\ SetShowSourceSelection(Cur, actions, "Mouse").selected = -1

(***************************************************************************)
(* C13.  As claimed: every callback fired during clearActions runs while   *)
(* the action list is intact and is passed no action.  The resized         *)
(* callback refutes it: it runs after the removal.  Amended: clearActions  *)
(* resets selected and then pressed to -1 before any action is removed;    *)
(* the activated callback (fired once when an action was selected, not     *)
(* otherwise) runs on the intact list, before pressed is reset, and is     *)
(* passed no action; the resized callback runs last, on the empty list;    *)
(* afterwards the list is empty and the size is the forced width, or       *)
(* widthMin when none is forced, by 2 * skip.                              *)
(***************************************************************************)
Activated(m) == SelectSeq(m.calls, LAMBDA c : c.cb = "activated")

EmptyMenuSize ==
    /\ width = (IF forceWidth # 0 THEN forceWidth ELSE WidthMin)
    /\ height = 2 * Skip

C13_EveryCallbackSeesIntactList ==
    LET m == ClearActionsSelection(Cur, actions)
    IN  \A k \in 1 .. Len(m.calls) :
            m.calls[k].count = Len(actions) /\ m.calls[k].index = -1

C13_ClearActions ==
    LET m == ClearActionsSelection(Cur, actions)
    IN  /\ m.selected = -1 /\ m.pressed = -1
        /\ Len(Activated(m)) = (IF selected # -1 THEN 1 ELSE 0)
        /\ \A k \in 1 .. Len(m.calls) :
              IF k < Len(m.calls)
              THEN /\ m.calls[k].cb = "activated"
                   /\ m.calls[k].index = -1
                   /\ m.calls[k].count = Len(actions)
                   /\ m.calls[k].pressed = pressed
              ELSE /\ m.calls[k].cb = "resized"
                   /\ m.calls[k].count = 0
                   /\ m.calls[k].pressed = -1
        /\ (sinceClear /\ actions = <<>> =>
               selected = -1 /\ pressed = -1 /\ EmptyMenuSize)

\* clearActions on a menu of a forced width whose second action is selected
\* and pressed.
C13_Witness ==
    /\ Len(actions) >= 2
    /\ forceWidth = WidthMax + 1
    /\ selected = 1 /\ pressed = 1
    /\ Len(Activated(ClearActionsSelection(Cur, actions))) = 1

(***************************************************************************)
(* C14.  As claimed: in every reachable state, if selected >= 0 then the   *)
(* action at index selected is not a separator.  setShowSource(Keyboard)   *)
(* and the forward arrow key select index 0 whatever the first action is,  *)
(* so a separator at the head of the list gets selected.                   *)
(***************************************************************************)
C14_SelectedIsNoSeparator ==
    selected >= 0 => ~IsSeparatorAt(selected)

(***************************************************************************)
(* C15.  As claimed: a handler that changes selected invokes the activated *)
(* callback exactly once, with the newly selected action (none for -1),    *)
(* its offset, and the source Mouse when the change came from pointer      *)
(* movement, entering or leaving and Keyboard when it came from a key      *)
(* press; a handler that leaves selected as it is invokes nothing.         *)
(* clearSelection turns mouse-selection mode off before it calls           *)
(* setSelected(-1), so a deselection by the pointer is reported with the   *)
(* source Keyboard.                                                        *)
(***************************************************************************)
ActivatedOnceWith(m, source) ==
    IF m.selected = selected
    THEN Activated(m) = <<>>
    ELSE /\ Len(Activated(m)) = 1
         /\ Activated(m)[1].index = m.selected
         /\ Activated(m)[1].top = Skip + HeightBefore(
                IF m.selected < 0 THEN Len(actions) ELSE m.selected)
         /\ Activated(m)[1].source = source

C15_ActivatedOnChange ==
    /\ \A pos \in Points :
          /\ ActivatedOnceWith(HandleMouseMove(Cur, actions, pos), "Mouse")
          /\ ActivatedOnceWith(EnterEventHook(Cur, actions, pos), "Mouse")
    /\ ActivatedOnceWith(ClearMouseSelection(Cur, actions), "Mouse")
    /\ \A key \in Keys :
          ActivatedOnceWith(HandleKeyPress(Cur, actions, actionsData, key).m, "Keyboard")

(***************************************************************************)
(* C16.  Pointer movement to a position outside the inner rectangle (the   *)
(* widget without its top and bottom padding strips): with mouse-selection *)
(* mode on and no child submenu shown, selected becomes -1 and the mode is *)
(* turned off; with a child submenu shown or the mode off, selected and    *)
(* the mode are unchanged; in both cases the position is passed to the     *)
(* mouse-move delegate.  Movement inside the inner rectangle turns the     *)
(* mode on and sets selected from the position, and calls no delegate.     *)
(***************************************************************************)
InInnerRectangle(pos) ==
    /\ 0 <= pos.x /\ pos.x < width
    /\ Skip <= pos.y /\ pos.y < height - Skip

MoveDelegated(m) == SelectSeq(m.calls, LAMBDA c : c.cb = "mouseMoveDelegate")

C16_HandleMouseMove ==
    \A pos \in Points :
        LET m == HandleMouseMove(Cur, actions, pos)
        IN  /\ m.pressed = pressed
            /\ IF InInnerRectangle(pos)
               THEN /\ m.mouseSelection
                    /\ m.selected = ActionUnder(pos.y - Skip)
                    /\ MoveDelegated(m) = <<>>
               ELSE /\ IF mouseSelection /\ ~childShown
                       THEN m.selected = -1 /\ ~m.mouseSelection
                       ELSE m.selected = selected
                            /\ m.mouseSelection = mouseSelection
                    /\ Len(MoveDelegated(m)) = 1
                    /\ MoveDelegated(m)[1].pos = pos

\* The pointer selects an action while a child submenu is shown: a move
\* outside keeps the selection, a move onto another action changes it.
C16_Witness ==
    /\ mouseSelection /\ childShown
    /\ selected = 1
    /\ \E pos \in Points :
          /\ ~InInnerRectangle(pos)
          /\ HandleMouseMove(Cur, actions, pos).selected = 1
    /\ \E pos \in Points :
          /\ InInnerRectangle(pos)
          /\ HandleMouseMove(Cur, actions, pos).selected = 0

(***************************************************************************)
(* C17.  As claimed: for a non-separator action with non-empty text the    *)
(* required width is left padding + text width + right padding plus one    *)
(* trailing extra: the arrow's if the action has a submenu, else the       *)
(* shortcut's if it has one, else the toggle's if it is checkable.         *)
(* processAction adds the toggle's width to every checkable action, also   *)
(* to one with a submenu or a shortcut.                                    *)
(***************************************************************************)
HasTextAt(i) == ~IsSeparatorAt(i) /\ actions[i + 1].text # <<>>

DisplayWidthAt(i) == Len(ExpectedText(Segment(actions[i + 1].text, 0))) * CharWidth

ShortcutAt(i) ==
    IF SegmentCount(actions[i + 1].text) >= 2
    THEN Segment(actions[i + 1].text, 1) ELSE <<>>

OneTrailingExtraAt(i) ==
    IF actions[i + 1].menu THEN PaddingRight + ArrowWidth
    ELSE IF ShortcutAt(i) # <<>> THEN PaddingRight + Len(ShortcutAt(i)) * CharWidth
    ELSE IF actions[i + 1].checkable THEN PaddingRight + ToggleWidth - ToggleShift
    ELSE 0

C17_OneTrailingExtra ==
    \A i \in Indices :
        HasTextAt(i) =>
            GoodWidth(actions[i + 1], actionsData[i + 1]) =
                PaddingLeft + DisplayWidthAt(i) + PaddingRight + OneTrailingExtraAt(i)

(***************************************************************************)
(* C18.  As claimed: with no forced width, the width after an addAction    *)
(* and after an actionChanged is the maximum, over the actions then in the *)
(* list, of the action's required width (as processAction computes it)     *)
(* clamped to [widthMin, widthMax], and widthMin when no action has text.  *)
(* addAction starts from the current width, which setForceWidth(0) has set *)
(* to 0, and processes the new action only, so an append after             *)
(* setForceWidth(0) forgets the widths of the actions already in the list. *)
(***************************************************************************)
RequiredWidth(action) ==
    LET raw == action.text
        shortcut == IF SegmentCount(raw) >= 2 THEN Segment(raw, 1) ELSE <<>>
    IN  PaddingLeft + Len(ExpectedText(Segment(raw, 0))) * CharWidth + PaddingRight
        + (IF action.menu THEN PaddingRight + ArrowWidth
           ELSE IF shortcut # <<>> THEN PaddingRight + Len(shortcut) * CharWidth
           ELSE 0)
        + (IF action.checkable THEN PaddingRight + ToggleWidth - ToggleShift ELSE 0)

AcceptedWidth(action) ==
    IF RequiredWidth(action) < WidthMin THEN WidthMin
    ELSE IF RequiredWidth(action) > WidthMax THEN WidthMax
    ELSE RequiredWidth(action)

WidestOf(acts) ==
    MaxOf({WidthMin} \cup
          {AcceptedWidth(acts[k]) :
               k \in {j \in 1 .. Len(acts) : ~acts[j].sep /\ acts[j].text # <<>>}})

C18_WidthIsWidestAction ==
    forceWidth = 0 =>
        /\ \A a \in LayoutActions :
              AddActionWidth(a) = WidestOf(Append(actions, a))
        /\ \A i \in Indices, t \in Texts :
              ~IsSeparatorAt(i) =>
                  ActionChangedWidth([actions EXCEPT ![i + 1].text = t]) =
                      WidestOf([actions EXCEPT ![i + 1].text = t])

(***************************************************************************)
(* C19.  Enter / Return on a selected, enabled action presses and releases *)
(* it within the one event: when the handler returns pressed = -1 and the  *)
(* triggered callback was invoked exactly once, with that action and the   *)
(* source Keyboard.  With nothing selected or a disabled action selected   *)
(* the key changes neither selected nor pressed and invokes no callback.   *)
(***************************************************************************)
C19_EnterPressesAndReleases ==
    LET m == HandleKeyPress(Cur, actions, actionsData, "Enter").m
    IN  /\ m.selected = selected
        /\ m.mouseSelection = mouseSelection
        /\ IF selected >= 0 /\ IsEnabledAt(selected)
           THEN /\ m.pressed = -1
                /\ Len(m.calls) = 1
                /\ m.calls[1].cb = "triggered"
                /\ m.calls[1].index = selected
                /\ m.calls[1].source = "Keyboard"
                /\ m.calls[1].pressed = -1
           ELSE /\ m.pressed = pressed
                /\ m.calls = <<>>

\* The pointer holds a press on the first action while the keyboard has moved
\* the selection to the second one, which Enter triggers.
C19_Witness ==
    /\ Len(actions) >= 2
    /\ pressed = 0
    /\ selected = 1
    /\ IsEnabledAt(1)
    /\ Len(Triggered(HandleKeyPress(Cur, actions, actionsData, "Enter").m)) = 1
    /\ HandleKeyPress(Cur, actions, actionsData, "Enter").m.pressed = -1

(***************************************************************************)
(* C20.  The forward arrow key (Right, or Left under a right-to-left       *)
(* layout).  On a selected action with a submenu: the action is pressed    *)
(* and released, which invokes the triggered callback once when it is      *)
(* enabled and nothing when it is not, and selected is unchanged.  With    *)
(* nothing selected and a non-empty list: mouse-selection mode is turned   *)
(* off and selected becomes 0.  On a selected action without a submenu, or *)
(* on an empty list: nothing changes and no callback is invoked.           *)
(***************************************************************************)
HasSubmenuAt(i) == actions[i + 1].menu

C20_ForwardArrow ==
    LET m == HandleKeyPress(Cur, actions, actionsData, "Forward").m
    IN  IF selected >= 0 /\ HasSubmenuAt(selected)
        THEN /\ m.selected = selected
             /\ m.mouseSelection = mouseSelection
             /\ IF IsEnabledAt(selected)
                THEN /\ m.pressed = -1
                     /\ Len(m.calls) = 1
                     /\ m.calls[1].cb = "triggered"
                     /\ m.calls[1].index = selected
                     /\ m.calls[1].source = "Keyboard"
                ELSE m.calls = <<>>
        ELSE IF selected < 0 /\ Len(actions) > 0
        THEN /\ ~m.mouseSelection
             /\ m.selected = 0
             /\ m.pressed = pressed
        ELSE /\ m.selected = selected
             /\ m.pressed = pressed
             /\ m.mouseSelection = mouseSelection
             /\ m.calls = <<>>

\* The second action has a submenu and is selected while the pointer holds a
\* press on the first one: the key triggers the second action.
C20_Witness ==
    /\ Len(actions) >= 2
    /\ selected = 1 /\ pressed = 0
    /\ HasSubmenuAt(1) /\ IsEnabledAt(1)
    /\ LET m == HandleKeyPress(Cur, actions, actionsData, "Forward").m
       IN  Len(Triggered(m)) = 1 /\ m.selected = 1 /\ m.pressed = -1

(***************************************************************************)
(* C21.  As claimed: the timer writes the settings file only when 5        *)
(* seconds have passed since the latest Write() request, a Write() that    *)
(* arrives while a write is pending restarting the 5 seconds.              *)
(* Manager::write starts the timer only when it is not active, so a        *)
(* Write() during a pending write changes nothing and the file is written  *)
(* 5 seconds after the first request.                                      *)
(***************************************************************************)
WritePending == jsonWriteTimer.active

TimerCanWrite == jsonWriteTimer.active /\ jsonWriteTimer.left = 0

C21_WriteAfterInactivity ==
    /\ TimerCanWrite => sinceWrite >= kWriteJsonTimeout
    /\ Data /\ WritePending =>
          WriteIn(SettingsCur).jsonWriteTimer.left = kWriteJsonTimeout

(***************************************************************************)
(* C22.  As claimed: Finish() while a write is pending stops the timer and *)
(* writes the current settings at once, exactly once.  When the custom     *)
(* file cannot be opened nothing is written.  Amended: Finish() while a    *)
(* write is pending stops the timer, so that it causes no later write, and *)
(* writes the current settings at once, exactly once, when the custom file *)
(* can be opened for writing, and nothing when it cannot; Finish() with no *)
(* write pending performs no write and starts no timer.                    *)
(***************************************************************************)
\* The file holds exactly the settings: a font name that is empty is left out.
HoldsSettings(file, settings) ==
    /\ file.exists /\ file.root = "object" /\ file.fonts.t = "object"
    /\ file.fonts.main =
          (IF settings.main = "" THEN JNone ELSE JString(settings.main))
    /\ file.fonts.semibold =
          (IF settings.semibold = "" THEN JNone ELSE JString(settings.semibold))
    /\ file.fonts.monospaced =
          (IF settings.monospaced = "" THEN JNone ELSE JString(settings.monospaced))
    /\ file.fonts.semibold_is_bold = JBool(settings.semiboldIsBold)

CustomWrites(m) == SelectSeq(m.writes, LAMBDA w : w.file = "custom")

FinishWithoutPendingDoesNothing ==
    ~(Data /\ WritePending) =>
        \A canOpen \in BOOLEAN : FinishIn(SettingsCur, canOpen) = SettingsCur

C22_FinishWritesOnce ==
    /\ Data /\ WritePending =>
          \A canOpen \in BOOLEAN :
              LET m == FinishIn(SettingsCur, canOpen)
              IN  /\ ~m.jsonWriteTimer.active
                  /\ Len(m.writes) = 1
                  /\ HoldsSettings(m.writes[1].document, fontSettings)
                  /\ m.customFile = m.writes[1].document
    /\ FinishWithoutPendingDoesNothing

C22_FinishFlushes ==
    /\ Data /\ WritePending =>
          \A canOpen \in BOOLEAN :
              LET m == FinishIn(SettingsCur, canOpen)
              IN  /\ ~m.jsonWriteTimer.active
                  /\ m.fontSettings = fontSettings
                  /\ IF canOpen
                     THEN /\ Len(m.writes) = 1
                          /\ m.writes[1].file = "custom"
                          /\ HoldsSettings(m.writes[1].document, fontSettings)
                          /\ m.customFile = m.writes[1].document
                     ELSE m.writes = <<>> /\ m.customFile = customFile
    /\ FinishWithoutPendingDoesNothing

\* A write is pending for settings that the file does not hold yet.
C22_Witness ==
    /\ Data /\ WritePending
    /\ jsonWriteTimer.left > 0
    /\ fontSettings.main # ""
    /\ ~HoldsSettings(customFile, fontSettings)
    /\ HoldsSettings(FinishIn(SettingsCur, TRUE).customFile, fontSettings)

(***************************************************************************)
(* C23.  As claimed: Start() always succeeds; a missing custom file is     *)
(* created from the bundled default; a custom file that exists is never    *)
(* written by fill(), and when it cannot be opened, is no JSON, is no      *)
(* object or is an empty object no setting is changed; a fonts member that *)
(* is no object is skipped, and so is a member of fonts of a wrong type,   *)
(* the other members being read.  The missing file is not created when it  *)
(* cannot be opened for writing.  Amended: the same, the missing file      *)
(* being created when it can be opened for writing and staying missing     *)
(* when it cannot.                                                         *)
(***************************************************************************)
StringOr(value, old) == IF value.t = "string" THEN value.s ELSE old

BoolOr(value, old) == IF value.t = "bool" THEN value.b ELSE old

Unusable(file, canOpen) ==
    ~canOpen \/ file.root # "object"
    \/ (file.version.t = "none" /\ file.fonts.t = "none" /\ ~file.extra)

LoadsCustomFile(m, io) ==
    /\ m.Data
    /\ m.jsonWriteTimer = jsonWriteTimer
    /\ customFile.exists =>
          /\ m.customFile = customFile
          /\ CustomWrites(m) = <<>>
          /\ IF Unusable(customFile, io.customRead) \/ customFile.fonts.t # "object"
             THEN m.fontSettings = fontSettings
             ELSE /\ m.fontSettings.main =
                        StringOr(customFile.fonts.main, fontSettings.main)
                  /\ m.fontSettings.semibold =
                        StringOr(customFile.fonts.semibold, fontSettings.semibold)
                  /\ m.fontSettings.monospaced =
                        StringOr(customFile.fonts.monospaced, fontSettings.monospaced)
                  /\ m.fontSettings.semiboldIsBold =
                        BoolOr(customFile.fonts.semibold_is_bold,
                               fontSettings.semiboldIsBold)

C23_MissingFileIsCreated ==
    ~Data =>
        \A io \in OpenResults :
            LET m == StartIn(SettingsCur, io)
            IN  /\ LoadsCustomFile(m, io)
                /\ ~customFile.exists =>
                      /\ m.fontSettings = fontSettings
                      /\ m.customFile = BundledCustomDocument

C23_LoadFallsBack ==
    ~Data =>
        \A io \in OpenResults :
            LET m == StartIn(SettingsCur, io)
            IN  /\ LoadsCustomFile(m, io)
                /\ ~customFile.exists =>
                      /\ m.fontSettings = fontSettings
                      /\ m.customFile =
                            (IF io.customWrite THEN BundledCustomDocument
                             ELSE customFile)

\* Before Start(), a custom file whose fonts have a member of a wrong type
\* before members of the right type.
C23_Witness ==
    /\ ~Data
    /\ customFile.exists
    /\ customFile.fonts.main.t = "number"
    /\ fontSettings = FontSettings("A", "", TRUE, "M")
    /\ \E io \in OpenResults :
          StartIn(SettingsCur, io).fontSettings = FontSettings("A", "D", TRUE, "E")

(***************************************************************************)
(* C24.  In every interleaving of constructions and destructions of        *)
(* window helpers and native messages: a message for a handle is passed to *)
(* a helper only if the map holds that helper for the handle and the       *)
(* helper is alive with that handle, it is reported unhandled when the map *)
(* has no entry for the handle, and handleNativeEvent never ran on a       *)
(* destroyed helper, also when two helpers were made for one handle.       *)
(***************************************************************************)
Alive(helper) == helperHandle[helper] # NoHandle

C24_DispatchOnlyToLiveHelper ==
    /\ \A hwnd \in Handles, handled \in BOOLEAN :
          LET got == NativeEventFilter(windowByHandle, hwnd, handled)
          IN  IF windowByHandle[hwnd] = NoHelper
              THEN got.helper = NoHelper /\ got.result = FALSE
              ELSE /\ got.helper = windowByHandle[hwnd]
                   /\ Alive(got.helper)
                   /\ helperHandle[got.helper] = hwnd
                   /\ got.result = handled
    /\ \A helper \in Helpers : helperEvents[helper] => Alive(helper)

\* Two live helpers of one handle, the first of which is registered and has
\* received a message.
C24_Witness ==
    \E first, second \in Helpers :
        /\ first # second
        /\ Alive(first) /\ helperHandle[second] = helperHandle[first]
        /\ windowByHandle[helperHandle[first]] = first
        /\ helperEvents[first]

(***************************************************************************)
(* C25.  As claimed: the triggered callback is never invoked with a        *)
(* separator nor with an action that was disabled when it was pressed,     *)
(* for pointer and keyboard presses alike and however the selection was    *)
(* reached.  Stated on every handler that presses or releases: an index it *)
(* newly stores in pressed, and an index it passes to triggered, is that   *)
(* of an enabled action that is no separator at the time of the press.     *)
(* itemPressed tests isEnabled() only, and a separator, which is enabled,  *)
(* can be the selection after setShowSource(Keyboard) or the forward arrow *)
(* key (C14), so Enter triggers it.                                        *)
(***************************************************************************)
PressesOnlyNavigable(m) ==
    /\ m.pressed >= 0 /\ m.pressed # pressed => IsNavigable(m.pressed)
    /\ \A n \in 1 .. Len(Triggered(m)) :
          /\ ~IsSeparatorAt(Triggered(m)[n].index)
          /\ Triggered(m)[n].source = "Keyboard" =>
                 IsEnabledAt(Triggered(m)[n].index)

C25_TriggeredIsNavigable ==
    /\ \A pos \in Points :
          /\ PressesOnlyNavigable(HandleMousePress(Cur, actions, pos))
          /\ PressesOnlyNavigable(HandleMouseRelease(Cur, actions, pos))
    /\ \A key \in Keys :
          PressesOnlyNavigable(HandleKeyPress(Cur, actions, actionsData, key).m)

(***************************************************************************)
(* C26.  In every reachable state a toggle view is in the hover style only *)
(* if its action's index equals selected or pressed.  setSelected(to)      *)
(* (setPressed(to)) that moves off an index which is not also the pressed  *)
(* (selected) one returns that action's toggle to the resting style, and   *)
(* the toggle of the action it moves to is given the hover style if the    *)
(* action is enabled and keeps its style if not.                           *)
(***************************************************************************)
ToggleAt(data, i) == data[i + 1].toggle

MovesToggle(after, from, to, other) ==
    /\ from >= 0 /\ from # to /\ from # other /\ ToggleAt(actionsData, from) # "none" =>
           ToggleAt(after, from) = "resting"
    /\ to >= 0 /\ to # from =>
           ToggleAt(after, to) =
               (IF ToggleAt(actionsData, to) # "none" /\ IsEnabledAt(to)
                THEN "hover" ELSE ToggleAt(actionsData, to))
    /\ \A i \in Indices \ {from, to} : ToggleAt(after, i) = ToggleAt(actionsData, i)

C26_HoverOnlySelectedOrPressed ==
    /\ \A i \in Indices :
          ToggleAt(actionsData, i) = "hover" => i = selected \/ i = pressed
    /\ \A to \in {-1} \cup Indices :
          /\ MovesToggle(SetSelected(Cur, actions, to).data, selected, to, pressed)
          /\ MovesToggle(SetPressed(Cur, actions, to).data, pressed, to, selected)

\* The pointer holds a press on the first action while the selection is on
\* the second one, and both toggles are in the hover style.
C26_Witness ==
    /\ Len(actions) = 2
    /\ pressed = 0 /\ selected = 1
    /\ ToggleAt(actionsData, 0) = "hover"
    /\ ToggleAt(actionsData, 1) = "hover"

(***************************************************************************)
(* C27.  A ripple object comes to exist for an action only in a pointer    *)
(* press that leaves the action pressed and selected, with mouse-selection *)
(* mode on and the action enabled; a pointer press on an action that has   *)
(* one keeps the one object; key presses and all other handlers create     *)
(* none; and only a paint event that finds the ripple finished,            *)
(* finishAnimating and clearActions remove one.                            *)
(***************************************************************************)
Ripples(data) == {i \in 0 .. Len(data) - 1 : data[i + 1].ripple}

KeepsRipples(m) == Ripples(m.data) = Ripples(actionsData)

C27_RippleOnlyFromPointerPress ==
    /\ \A pos \in Points :
          LET m == HandleMousePress(Cur, actions, pos)
          IN  /\ Ripples(actionsData) \subseteq Ripples(m.data)
              /\ \A i \in Ripples(m.data) \ Ripples(actionsData) :
                    /\ i = m.pressed /\ i = m.selected
                    /\ m.mouseSelection
                    /\ IsEnabledAt(i) /\ ~IsSeparatorAt(i)
              /\ m.pressed >= 0 /\ m.pressed # pressed =>
                    m.pressed \in Ripples(m.data)
    /\ \A key \in Keys : KeepsRipples(HandleKeyPress(Cur, actions, actionsData, key).m)
    /\ \A pos \in Points :
          /\ KeepsRipples(HandleMouseMove(Cur, actions, pos))
          /\ KeepsRipples(HandleMouseRelease(Cur, actions, pos))
          /\ KeepsRipples(EnterEventHook(Cur, actions, pos))
    /\ \A source \in Sources : KeepsRipples(SetShowSourceSelection(Cur, actions, source))
    /\ KeepsRipples(ClearMouseSelection(Cur, actions))
    /\ \A a \in VisualActions, cursor \in Points :
          Ripples(AddActionSelection([Cur EXCEPT !.data = AddActionData(@, a)],
                                     a, cursor).data) = Ripples(actionsData)
    /\ \A finished \in SUBSET Indices :
          Ripples(PaintRipples(actionsData, actions, finished)) =
              Ripples(actionsData) \ finished
    /\ Ripples(FinishAnimatingData(actionsData)) = {}
    /\ Ripples(ClearActionsSelection(Cur, actions).data) = {}

\* The first action has a ripple from a pointer press and is selected by the
\* keyboard, so that Enter presses it again; the second one has none.
C27_Witness ==
    /\ Len(actions) = 2
    /\ Ripples(actionsData) = {0}
    /\ ~mouseSelection
    /\ selected = 0 /\ IsEnabledAt(0)
    /\ Len(Triggered(HandleKeyPress(Cur, actions, actionsData, "Enter").m)) = 1

(***************************************************************************)
(* C28.  While mouse-selection mode is off, updateSelected changes nothing *)
(* for any position: selected, pressed, the mode and the action data are   *)
(* as before and no callback is invoked.  Hence appending an action while  *)
(* the mode is off leaves selected as it is (addAction invokes the resized *)
(* callback, and never the activated one).                                 *)
(***************************************************************************)
C28_UpdateSelectedNeedsMouseMode ==
    ~mouseSelection =>
        /\ \A pos \in Points :
              LET m == UpdateSelected(Cur, actions, pos)
              IN  /\ m.selected = selected
                  /\ m.pressed = pressed
                  /\ m.mouseSelection = mouseSelection
                  /\ m.data = actionsData
                  /\ m.calls = <<>>
        /\ \A a \in MenuActions, cursor \in Points :
              LET m == AddActionSelection([Cur EXCEPT !.data = AddActionData(@, a)],
                                          a, cursor)
              IN  /\ m.selected = selected
                  /\ m.pressed = pressed
                  /\ ~m.mouseSelection
                  /\ Activated(m) = <<>>

\* The keyboard selected the first action; the second one could be selected
\* by the pointer, were the mode on.
C28_Witness ==
    /\ ~mouseSelection
    /\ selected = 0
    /\ Len(actions) = 2 /\ IsNavigable(1)
    /\ \E pos \in Points : ActionUnder(pos.y - Skip) = 1

(***************************************************************************)
(* C29.  A pointer press inside the widget but outside the inner           *)
(* rectangle, while mouse-selection mode is off.  As claimed: selected and *)
(* pressed are unchanged, no ripple is created and no callback fires.      *)
(* handleMousePress runs handleMouseMove first, which passes a position    *)
(* outside the inner rectangle to the mouse-move delegate.  Amended:       *)
(* selected, pressed, the mode and the action data (ripples included) are  *)
(* unchanged and the one callback invoked is the mouse-move delegate, with *)
(* the position.                                                           *)
(***************************************************************************)
InWidget(pos) ==
    /\ 0 <= pos.x /\ pos.x < width
    /\ 0 <= pos.y /\ pos.y < height

KeyboardDrivenPressAt(pos) ==
    ~mouseSelection /\ InWidget(pos) /\ ~InInnerRectangle(pos)

PressChangesNothing(m) ==
    /\ m.selected = selected
    /\ m.pressed = pressed
    /\ m.mouseSelection = mouseSelection
    /\ m.data = actionsData

C29_PressInKeyboardModeIsSilent ==
    \A pos \in Points :
        KeyboardDrivenPressAt(pos) =>
            LET m == HandleMousePress(Cur, actions, pos)
            IN  PressChangesNothing(m) /\ m.calls = <<>>

C29_PressInKeyboardMode ==
    \A pos \in Points :
        KeyboardDrivenPressAt(pos) =>
            LET m == HandleMousePress(Cur, actions, pos)
            IN  /\ PressChangesNothing(m)
                /\ Len(m.calls) = 1
                /\ m.calls[1].cb = "mouseMoveDelegate"
                /\ m.calls[1].pos = pos

\* The keyboard selected the first action, which is enabled and not pressed,
\* and the pointer can press on a padding strip.
C29_Witness ==
    /\ ~mouseSelection
    /\ selected = 0 /\ IsNavigable(0) /\ pressed = -1
    /\ \E pos \in Points :
          /\ KeyboardDrivenPressAt(pos)
          /\ HandleMousePress(Cur, actions, pos).pressed = -1

(***************************************************************************)
(* C30.  At most one write is pending, and Write() requests made while one *)
(* is pending result in one write holding the settings current at the      *)
(* moment of writing.  As claimed: a Write() that finds a write pending     *)
(* writes nothing and leaves that one write pending, and the timeout then   *)
(* writes the file exactly once, with the settings of that moment, and      *)
(* leaves nothing pending.  When the file cannot be opened at the timeout   *)
(* nothing is written.  Amended: the same when the file can be opened for   *)
(* writing; when it cannot, nothing is written, the file is as it was and   *)
(* no write stays pending.                                                  *)
(***************************************************************************)
WriteJoinsPending ==
    Data /\ WritePending =>
        LET m == WriteIn(SettingsCur)
        IN  /\ m.writes = <<>>
            /\ m.jsonWriteTimer.active
            /\ m.jsonWriteTimer.left <= jsonWriteTimer.left
            /\ m.customFile = customFile
            /\ m.fontSettings = fontSettings

WritesOnceAtTimeout(m) ==
    /\ ~m.jsonWriteTimer.active
    /\ Len(m.writes) = 1
    /\ m.writes[1].file = "custom"
    /\ HoldsSettings(m.writes[1].document, fontSettings)
    /\ m.customFile = m.writes[1].document

C30_PendingWritesOnce ==
    /\ WriteJoinsPending
    /\ TimerCanWrite =>
          \A canOpen \in BOOLEAN :
              WritesOnceAtTimeout(TimeoutIn(SettingsCur, canOpen))

C30_PendingWritesOnceIfOpened ==
    /\ WriteJoinsPending
    /\ TimerCanWrite =>
          \A canOpen \in BOOLEAN :
              LET m == TimeoutIn(SettingsCur, canOpen)
              IN  IF canOpen
                  THEN WritesOnceAtTimeout(m)
                  ELSE /\ ~m.jsonWriteTimer.active
                       /\ m.writes = <<>>
                       /\ m.customFile = customFile

\* The timer of a pending write has expired, a later Write() request joined
\* it less than the timeout ago, and the settings differ from the file.
C30_Witness ==
    /\ Data /\ TimerCanWrite
    /\ sinceWrite < kWriteJsonTimeout
    /\ ~HoldsSettings(customFile, fontSettings)
    /\ HoldsSettings(TimeoutIn(SettingsCur, TRUE).customFile, fontSettings)

(***************************************************************************)
(* C31.  When the custom file can be opened and the timeout of an expired  *)
(* timer is delivered: a Write() made after Start() is eventually followed *)
(* by a write of the settings to the custom file; until then the request   *)
(* rests on the active timer, whose expiry, like a Finish(), writes the    *)
(* settings of that moment.  Write() and Finish() before Start() change    *)
(* nothing and write nothing.                                              *)
(***************************************************************************)
NothingBeforeStart ==
    ~Data =>
        /\ WriteIn(SettingsCur) = SettingsCur
        /\ \A canOpen \in BOOLEAN : FinishIn(SettingsCur, canOpen) = SettingsCur
        /\ ~unwritten

RequestRestsOnTimer ==
    unwritten =>
        /\ Data /\ jsonWriteTimer.active
        /\ HoldsSettings(TimeoutIn(SettingsCur, TRUE).customFile, fontSettings)
        /\ HoldsSettings(FinishIn(SettingsCur, TRUE).customFile, fontSettings)

C31_WriteIsEventuallyWritten ==
    /\ [](NothingBeforeStart /\ RequestRestsOnTimer)
    /\ (unwritten ~> ~unwritten)

\* A request made after Start() waits on the running timer, and the file does
\* not hold the settings yet.
C31_Witness ==
    /\ unwritten
    /\ jsonWriteTimer.active /\ jsonWriteTimer.left > 0
    /\ ~HoldsSettings(customFile, fontSettings)

(***************************************************************************)
(* C32.  As claimed: the file writeDefaultFile produces is accepted by     *)
(* DefaultFileIsValid of the same application version, and fill() writes   *)
(* the default file only when it is missing, cannot be read, is no JSON    *)
(* object or carries another version.  writeDefaultFile stores the version *)
(* as the string QString::number(AppKotatoVersion), DefaultFileIsValid     *)
(* reads it with QJsonValue::toInt(), which gives 0 for a string, so the   *)
(* file is rejected and every start of the application rewrites it.        *)
(***************************************************************************)
DefaultWrites(m) == SelectSeq(m.writes, LAMBDA w : w.file = "default")

CarriesThisVersion(file) ==
    \/ file.version = JNumber(AppKotatoVersion)
    \/ file.version = JString(ToString(AppKotatoVersion))

C32_DefaultFileIsKept ==
    /\ defaultFile = DefaultDocument => DefaultFileIsValid(defaultFile, TRUE)
    /\ \A io \in OpenResults :
          DefaultWrites(Fill(SettingsCur, io)) # <<>> =>
              \/ ~defaultFile.exists
              \/ ~io.defaultRead
              \/ defaultFile.root # "object"
              \/ ~CarriesThisVersion(defaultFile)

(***************************************************************************)
(* C33.  Round trip of the custom settings.  readCustomFile, run on the    *)
(* file writeCurrentSettings has written and on settings of any prior      *)
(* values, leaves semibold_is_bold as it was when the file was written,    *)
(* and each of the three font names as it was when written if it was not   *)
(* empty then, and at its prior value if it was.                           *)
(***************************************************************************)
NameAfterRoundTrip(writtenName, priorName) ==
    IF writtenName = "" THEN priorName ELSE writtenName

\* The settings readCustomFile leaves when it starts from the settings prior
\* and the file that writeCurrentSettings writes in the current state.
ReadBack(prior) ==
    LET written == WriteCurrentSettings(SettingsCur, TRUE)
    IN  ReadCustomFile([written EXCEPT !.fontSettings = prior], TRUE).m.fontSettings

C33_RoundTrip ==
    \A prior \in SettingsValues :
        /\ ReadBack(prior).semiboldIsBold = fontSettings.semiboldIsBold
        /\ ReadBack(prior).main = NameAfterRoundTrip(fontSettings.main, prior.main)
        /\ ReadBack(prior).semibold =
              NameAfterRoundTrip(fontSettings.semibold, prior.semibold)
        /\ ReadBack(prior).monospaced =
              NameAfterRoundTrip(fontSettings.monospaced, prior.monospaced)

\* The file was written from settings with a main font, no semibold font and
\* the flag set; read onto settings with a semibold font and the flag
\* cleared, it restores the main font and the flag and keeps that semibold
\* font.
C33_Witness ==
    /\ Data
    /\ customFile = WriteCurrentSettings(SettingsCur, TRUE).customFile
    /\ fontSettings.main # "" /\ fontSettings.semibold = ""
    /\ fontSettings.semiboldIsBold
    /\ \E prior \in SettingsValues :
          /\ prior.semibold # "" /\ ~prior.semiboldIsBold
          /\ prior.main # fontSettings.main
          /\ ReadBack(prior).semibold = prior.semibold
          /\ ReadBack(prior).main = fontSettings.main
          /\ ReadBack(prior).semiboldIsBold

====
